---- MODULE Spec2Model ----
(***************************************************************************)
(* A model of the request-processing engine of discord-mcp:                *)
(*   - the session read loop, the in-flight table and the request tasks    *)
(*     (core/server/shared/session.py, core/server/base.py),               *)
(*   - the rate-limit engine and its middleware (core/plugins/cooldowns,   *)
(*     core/server/middleware/rate_limit.py),                              *)
(*   - the resumable event store (persistence/).                           *)
(*   - concurrent calls on the shared SQLite adapter                       *)
(*     (persistence/adapters/sqlite_adapter.py),                           *)
(*   - the loading of plugin manifests into the registry and the managers  *)
(*     (core/server/base.py, core/server/shared/repository.py),            *)
(*   - the middleware chain around the method handlers                     *)
(*     (core/server/middleware/, core/server/base.py),                     *)
(*   - the bot lifecycle around the serving of sessions                    *)
(*     (core/server/shared/context.py),                                    *)
(*   - the teardown of the response streams when the read loop ends        *)
(*     (core/server/shared/session.py),                                    *)
(*   - the dispatch loop of run and its handler tasks                      *)
(*     (core/server/base.py),                                              *)
(*   - the handler table rebuilt when the middleware stack changes         *)
(*     (core/server/mcp_server.py),                                        *)
(*   - the cooldown manager, its per-key buckets and direct consumes on    *)
(*     one limiter (core/plugins/cooldowns/).                              *)
(* Each part has its own specification over its own variables; the         *)
(* variables of the other parts stay at their initial values.              *)
(***************************************************************************)
EXTENDS Integers, Sequences, FiniteSets, TLC

\* ------------------------------------------------------------------ bounds

\* Requests a client sends on one session after its initialize request.
MaxReq == 1

\* Request ids: 0 is the id of the initialize request.
RequestIds == 0..MaxReq

\* ------------------------------------------------------------ the session

VARIABLES
    initialization_state,  \* ServerSession._initialization_state
    in_flight,             \* DiscordMCPServerSession._in_flight (its keys)
    responder,             \* per request id: the RequestResponder and its task
    write_waiting,         \* frames handed to _write_stream.send, not yet taken
    written,               \* frames the transport took from the write stream
    cancel_seen            \* ids for which a CancelledNotification was read

sessionVars == <<initialization_state, in_flight, responder, write_waiting,
                 written, cancel_seen>>

\* The client requests the model sends: initialize (answered by the session
\* itself), tools/call (a registered handler) and logging/setLevel (a valid
\* client request for which base.py registers no handler).
Methods == {"initialize", "tools/call", "logging/setLevel"}

\* The request frames the client sends: initialize under id 0 and nothing
\* else under that id.
ClientSends(i, m) == (m = "initialize") <=> (i = 0)

\* How a registered handler ends: a result, a raised MCP error, or any other
\* exception.
Outcomes == {"result", "mcp_error", "exception"}

NoResponder == [st |-> "unsent", method |-> "none", completed |-> FALSE,
                cancelled |-> FALSE]

\* RequestResponder._entered: set by __enter__, cleared by __exit__.
Entered(i) == responder[i].st \in {"running", "responding", "written"}

\* request_handlers.get(type(req)): the handlers _setup_handlers registers.
HasHandler(m) == m = "tools/call"

Frame(i, k, s) == [id |-> i, kind |-> k, sender |-> s]

RECURSIVE CountId(_, _)
CountId(frames, i) ==
    IF frames = <<>> THEN 0
    ELSE (IF Head(frames).id = i THEN 1 ELSE 0) + CountId(Tail(frames), i)

\* Response frames carrying id i that were written or are committed to the
\* write stream.
FramesFor(i) == CountId(written, i) + CountId(write_waiting, i)

RECURSIVE WithoutTask(_, _)
WithoutTask(frames, i) ==
    IF frames = <<>> THEN <<>>
    ELSE IF Head(frames).id = i /\ Head(frames).sender = "task"
         THEN WithoutTask(Tail(frames), i)
         ELSE <<Head(frames)>> \o WithoutTask(Tail(frames), i)

\* The read loop is serial: while one of its own sends waits on the write
\* stream it reads no further frame.
LoopIdle == \A k \in 1..Len(write_waiting) : write_waiting[k].sender # "loop"

SessionInit ==
    /\ initialization_state = "NotInitialized"
    /\ in_flight = {}
    /\ responder = [i \in RequestIds |-> NoResponder]
    /\ write_waiting = <<>>
    /\ written = <<>>
    /\ cancel_seen = {}

\* The frame the loop answers a request with when validation (or
\* _received_request) raises: JSONRPCError(INVALID_PARAMS) on the original id.
MutValidationErrorFrames(i) == <<>>

ValidationErrorFrames(i) == <<Frame(i, "invalid_params", "loop")>>

\* _receive_loop, a JSONRPCRequest whose model_validate raises.
ReceiveInvalidRequest(i) ==
    /\ LoopIdle
    /\ responder[i].st = "unsent"
    /\ responder' = [responder EXCEPT ![i].st = "invalid"]
    /\ write_waiting' = write_waiting \o ValidationErrorFrames(i)
    /\ UNCHANGED <<initialization_state, in_flight, written, cancel_seen>>

\* _receive_loop, a JSONRPCRequest that validates: the responder is built and
\* registered, _received_request runs, and unless the session answered it the
\* responder is handed to the message stream of the server's run loop.
ReceiveRequest(i, m) ==
    /\ LoopIdle
    /\ responder[i].st = "unsent"
    /\ IF m = "initialize"
       THEN \* answered inside _received_request, under `with responder`
            /\ responder' = [responder EXCEPT ![i] =
                   [st |-> "done", method |-> m, completed |-> TRUE,
                    cancelled |-> FALSE]]
            /\ write_waiting' =
                   Append(write_waiting, Frame(i, "initialize_result", "loop"))
            /\ initialization_state' = "Initialized"
            /\ UNCHANGED in_flight
       ELSE IF initialization_state # "Initialized"
       THEN \* _received_request raises; the except branch answers
            /\ responder' = [responder EXCEPT ![i] =
                   [st |-> "refused", method |-> m, completed |-> FALSE,
                    cancelled |-> FALSE]]
            /\ in_flight' = in_flight \cup {i}
            /\ write_waiting' = write_waiting \o ValidationErrorFrames(i)
            /\ UNCHANGED initialization_state
       ELSE /\ responder' = [responder EXCEPT ![i] =
                   [st |-> "queued", method |-> m, completed |-> FALSE,
                    cancelled |-> FALSE]]
            /\ in_flight' = in_flight \cup {i}
            /\ UNCHANGED <<initialization_state, write_waiting>>
    /\ UNCHANGED <<written, cancel_seen>>

\* RequestResponder.respond on a responder whose scope is not cancelled: it is
\* marked completed and the frame goes to the write stream.
Respond(i, kind) ==
    /\ responder' = [responder EXCEPT ![i].st = "responding",
                                       ![i].completed = TRUE]
    /\ write_waiting' = Append(write_waiting, Frame(i, kind, "task"))

\* _handle_message: the request task enters `with responder`; with no
\* registered handler _handle_request answers MethodNotFound at once.
EnterTask(i) ==
    /\ responder[i].st = "queued"
    /\ IF HasHandler(responder[i].method)
       THEN /\ responder' = [responder EXCEPT ![i].st = "running"]
            /\ UNCHANGED write_waiting
       ELSE Respond(i, "method_not_found")
    /\ UNCHANGED <<initialization_state, in_flight, written, cancel_seen>>

\* The response _handle_request builds from the way the chain ended.
ResponseKind(o) ==
    CASE o = "result" -> "result"
      [] o = "mcp_error" -> "error"
      [] OTHER -> "internal"

\* _handle_request: the chain ends (not cancelled) and the response is
\* handed to message.respond.
HandlerReturns(i, o) ==
    /\ responder[i].st = "running"
    /\ ~responder[i].cancelled
    /\ Respond(i, ResponseKind(o))
    /\ UNCHANGED <<initialization_state, in_flight, written, cancel_seen>>

\* RequestResponder.__exit__: a completed responder is taken out of the
\* in-flight table (on_complete).
ExitResponder(i) ==
    /\ in_flight' = IF responder[i].completed THEN in_flight \ {i} ELSE in_flight
    /\ responder' = [responder EXCEPT ![i].st = "done"]

\* _handle_request: the handler observes the cancellation at a suspension
\* point; the except branch returns without responding.
HandlerCancelled(i) ==
    /\ responder[i].st = "running"
    /\ responder[i].cancelled
    /\ ExitResponder(i)
    /\ UNCHANGED <<initialization_state, write_waiting, written, cancel_seen>>

\* The task's send on the write stream is cancelled before the transport took
\* the frame: the frame is withdrawn and the task leaves `with responder`.
SendCancelled(i) ==
    /\ responder[i].st = "responding"
    /\ responder[i].cancelled
    /\ write_waiting' = WithoutTask(write_waiting, i)
    /\ ExitResponder(i)
    /\ UNCHANGED <<initialization_state, written, cancel_seen>>

\* The transport takes the oldest waiting frame from the write stream.
TransportTakes ==
    /\ write_waiting # <<>>
    /\ LET f == Head(write_waiting) IN
       /\ written' = Append(written, [id |-> f.id, kind |-> f.kind])
       /\ write_waiting' = Tail(write_waiting)
       /\ responder' = IF f.sender = "task"
                       THEN [responder EXCEPT ![f.id].st = "written"]
                       ELSE responder
    /\ UNCHANGED <<initialization_state, in_flight, cancel_seen>>

\* The request task resumes after its send and leaves `with responder`.
TaskExits(i) ==
    /\ responder[i].st = "written"
    /\ ExitResponder(i)
    /\ UNCHANGED <<initialization_state, write_waiting, written, cancel_seen>>

\* _receive_loop, a CancelledNotification: for an id in the in-flight table
\* the responder's cancel is called. RequestResponder.cancel raises outside
\* `with responder` (the loop logs it); inside it cancels the scope, marks the
\* responder completed and sends the "Request cancelled" error itself.
ReceiveCancelled(i) ==
    /\ LoopIdle
    /\ i \notin cancel_seen
    /\ cancel_seen' = cancel_seen \cup {i}
    /\ IF i \in in_flight /\ Entered(i)
       THEN /\ responder' = [responder EXCEPT ![i].cancelled = TRUE,
                                               ![i].completed = TRUE]
            /\ write_waiting' = Append(write_waiting, Frame(i, "cancelled", "loop"))
       ELSE UNCHANGED <<responder, write_waiting>>
    /\ UNCHANGED <<initialization_state, in_flight, written>>

\* ------------------------------------------------- claims on the session

NoFrameWaiting(i) ==
    \A k \in 1..Len(write_waiting) : write_waiting[k].id # i

\* C1: every request frame that passed validation and whose processing has
\* ended (its task left `with responder`, or the session answered it itself)
\* has exactly one response frame carrying its id on the write stream.
C1_ExactlyOneResponse ==
    \A i \in RequestIds :
        (responder[i].st \in {"done", "refused"} /\ NoFrameWaiting(i))
            => CountId(written, i) = 1

\* C2: for a request id for which a CancelledNotification was read, at most
\* one response frame with that id is written, whatever the interleaving of
\* the cancellation with the handler's completion.
C2_AtMostOneFrameWhenCancelled ==
    \A i \in cancel_seen : CountId(written, i) <= 1

\* C3: a request frame that fails validation gets exactly one frame, a
\* JSONRPCError(InvalidParams) with its own id, and never reaches the handler
\* pipeline: it is not in the in-flight table and no task ever answers it.
C3_InvalidRequestAnswered ==
    \A i \in RequestIds :
        responder[i].st = "invalid" =>
            /\ i \notin in_flight
            /\ FramesFor(i) = 1
            /\ \A k \in 1..Len(written) :
                   written[k].id = i => written[k].kind = "invalid_params"
            /\ \A k \in 1..Len(write_waiting) :
                   write_waiting[k].id = i =>
                       /\ write_waiting[k].kind = "invalid_params"
                       /\ write_waiting[k].sender = "loop"

\* C3 witness: the error frame of an invalid request was written and the loop
\* went on: a frame it read afterwards (the initialize request) was answered.
C3_Witness ==
    \E p, q \in 1..Len(written) :
        /\ p < q
        /\ written[p].kind = "invalid_params"
        /\ responder[written[p].id].st = "invalid"
        /\ written[q].kind = "initialize_result"

\* ---------------------------------------------------------- rate limiting

\* Largest rate and period (in clock ticks) of the limiters under test.
MaxRate == 2
MaxPer == 2

VARIABLES
    cfg,           \* the limiter passed to `limit`: its type, rate and per
    now,           \* time.time(), in ticks
    cache,         \* CooldownManager._cache of the limited manifest
    call,          \* the request that entered the middleware chain last
    registry,      \* ManifestRepository._manifests
    grants,        \* per bucket key: times of the calls granted of late
    last_consume   \* the latest direct consume on a limiter and its stats

rateVars == <<cfg, now, cache, call, registry, grants, last_consume>>

LimiterTypes == {"fixed_window", "token_bucket", "moving_window"}

Configs == [kind : LimiterTypes, rate : 1..MaxRate, per : 1..MaxPer]

\* The limiter of the documented example: one call per 60 seconds.
FixedWindowCase == [kind |-> "fixed_window", rate |-> 1, per |-> 60]

\* time.time() is epoch time: far larger than any period.
ClockStart(c) == c.per + 1

\* The clock runs for two whole periods.
ClockEnd(c) == ClockStart(c) + c.per + c.per

Min(a, b) == IF a <= b THEN a ELSE b
Max(a, b) == IF a >= b THEN a ELSE b

\* The float-valued stats are kept as exact fractions.
Rat(n, d) == [num |-> n, den |-> d]
RatPositive(q) == q.num > 0
RatAtMost(q, n) == q.num <= n * q.den

WindowStats(remaining, retry_after, reset_at, last_request) ==
    [remaining |-> remaining, retry_after |-> retry_after,
     reset_at |-> reset_at, last_request |-> last_request]

\* A limiter object. fixed window: tokens, window_start; token bucket: tokens
\* (counted in 1/per of a token, so that refills are whole numbers) and
\* last_check; moving window: stamps, the deque of grant times.
NoBucket == [live |-> FALSE, tokens |-> 0, window_start |-> 0,
             last_check |-> 0, stamps |-> <<>>]

\* __init__ of the three limiters, at time t.
NewLimiter(c, t) ==
    CASE c.kind = "fixed_window" ->
            [live |-> TRUE, tokens |-> c.rate, window_start |-> t,
             last_check |-> 0, stamps |-> <<>>]
      [] c.kind = "token_bucket" ->
            [live |-> TRUE, tokens |-> c.rate * c.per, window_start |-> 0,
             last_check |-> t, stamps |-> <<>>]
      [] OTHER ->
            [live |-> TRUE, tokens |-> 0, window_start |-> 0,
             last_check |-> 0, stamps |-> <<>>]

\* FixedWindowRateLimiter._refresh
MutFixedRefresh(c, l, t) ==
    IF t >= l.window_start
    THEN [l EXCEPT !.tokens = c.rate, !.window_start = t]
    ELSE l

FixedRefresh(c, l, t) ==
    IF t >= l.window_start + c.per
    THEN [l EXCEPT !.tokens = c.rate, !.window_start = t]
    ELSE l

\* FixedWindowRateLimiter.consume
MutFixedConsume(c, l, t, amount) ==
    IF l.tokens >= amount
    THEN [ok |-> TRUE, limiter |-> [l EXCEPT !.tokens = @ - amount]]
    ELSE [ok |-> FALSE, limiter |-> l]

FixedConsume(c, l, t, amount) ==
    LET r == FixedRefresh(c, l, t) IN
    IF r.tokens >= amount
    THEN [ok |-> TRUE, limiter |-> [r EXCEPT !.tokens = @ - amount]]
    ELSE [ok |-> FALSE, limiter |-> r]

\* FixedWindowRateLimiter.stats
FixedStats(c, l, t) ==
    LET passed == t >= l.window_start + c.per
        windows_passed == (t - l.window_start) \div c.per
        virtual_window_start ==
            IF passed THEN l.window_start + windows_passed * c.per
            ELSE l.window_start
        virtual_tokens == IF passed THEN c.rate ELSE l.tokens
        retry_after ==
            IF virtual_tokens > 0 THEN 0
            ELSE Max(0, virtual_window_start + c.per - t)
    IN WindowStats(virtual_tokens, Rat(retry_after, 1),
                   Rat(virtual_window_start + c.per, 1), virtual_window_start)

\* The deque without its leading timestamps older than per
\* (MovingWindowRateLimiter._refresh; the idx loop of stats).
RECURSIVE DropExpired(_, _, _)
DropExpired(stamps, t, per) ==
    IF stamps # <<>> /\ t - Head(stamps) > per
    THEN DropExpired(Tail(stamps), t, per)
    ELSE stamps

RECURSIVE Repeat(_, _)
Repeat(x, n) == IF n = 0 THEN <<>> ELSE <<x>> \o Repeat(x, n - 1)

\* MovingWindowRateLimiter.consume
MutMovingConsume(c, l, t, amount) ==
    LET r == [l EXCEPT !.stamps = SelectSeq(@, LAMBDA s : t - s < c.per)] IN
    IF Len(r.stamps) + amount <= c.rate
    THEN [ok |-> TRUE, limiter |-> [r EXCEPT !.stamps = @ \o Repeat(t, amount)]]
    ELSE [ok |-> FALSE, limiter |-> r]

MovingConsume(c, l, t, amount) ==
    LET r == [l EXCEPT !.stamps = DropExpired(l.stamps, t, c.per)] IN
    IF Len(r.stamps) + amount <= c.rate
    THEN [ok |-> TRUE, limiter |-> [r EXCEPT !.stamps = @ \o Repeat(t, amount)]]
    ELSE [ok |-> FALSE, limiter |-> r]

\* MovingWindowRateLimiter.stats
MovingStats(c, l, t) ==
    LET valid == DropExpired(l.stamps, t, c.per)
        remaining == c.rate - Len(valid)
        retry_after == IF remaining > 0 THEN 0
                       ELSE Max(0, Head(valid) + c.per - t)
        last_check == IF l.stamps # <<>> THEN l.stamps[Len(l.stamps)] ELSE 0
    IN WindowStats(remaining, Rat(retry_after, 1), Rat(t + retry_after, 1),
                   last_check)

\* TokenBucketRateLimiter._refill: elapsed * rate / per tokens are added.
TokenRefill(c, l, t) ==
    [l EXCEPT !.tokens = Min(c.rate * c.per, @ + (t - l.last_check) * c.rate),
              !.last_check = t]

\* TokenBucketRateLimiter.consume
TokenConsume(c, l, t, amount) ==
    LET r == TokenRefill(c, l, t) IN
    IF r.tokens >= amount * c.per
    THEN [ok |-> TRUE, limiter |-> [r EXCEPT !.tokens = @ - amount * c.per]]
    ELSE [ok |-> FALSE, limiter |-> r]

\* TokenBucketRateLimiter.stats
TokenStats(c, l, t) ==
    LET tokens == Max(0, Min(c.rate * c.per,
                             l.tokens + (t - l.last_check) * c.rate))
        retry_after == IF tokens >= c.per THEN Rat(0, c.rate)
                       ELSE Rat(Max(0, c.per - tokens), c.rate)
        reset_at == Rat(t * c.rate + Max(0, c.rate * c.per - tokens), c.rate)
    IN WindowStats(tokens \div c.per, retry_after, reset_at, l.last_check)

\* RateLimiter.consume and RateLimiter.stats of the configured type.
Consume(c, l, t, amount) ==
    CASE c.kind = "fixed_window" -> FixedConsume(c, l, t, amount)
      [] c.kind = "token_bucket" -> TokenConsume(c, l, t, amount)
      [] OTHER -> MovingConsume(c, l, t, amount)

Stats(c, l, t) ==
    CASE c.kind = "fixed_window" -> FixedStats(c, l, t)
      [] c.kind = "token_bucket" -> TokenStats(c, l, t)
      [] OTHER -> MovingStats(c, l, t)

\* get_bucket_key: the mcp-session-id header of the request, or "global".
BucketKeys == {"global", "session-1"}

\* The bucket key of the requests of the session the middleware is followed for.
SessionKey == "session-1"

\* CooldownManager._prune_cache
MutPruneCache(c, ch, t) ==
    [k \in BucketKeys |->
        IF ch[k].live /\ t > Stats(c, ch[k], t).last_request
        THEN NoBucket ELSE ch[k]]

PruneCache(c, ch, t) ==
    [k \in BucketKeys |->
        IF ch[k].live /\ t > Stats(c, ch[k], t).last_request + c.per
        THEN NoBucket ELSE ch[k]]

\* CooldownManager.get_bucket: the cache after the call; the bucket returned
\* is its entry under k.
GetBucket(c, ch, k, t) ==
    LET pruned == PruneCache(c, ch, t) IN
    [pruned EXCEPT ![k] = IF pruned[k].live THEN pruned[k] ELSE NewLimiter(c, t)]

\* CooldownManager.update_bucket
UpdateBucket(c, ch, k, t, amount) ==
    LET got == GetBucket(c, ch, k, t)
        r == Consume(c, got[k], t, amount)
    IN [ok |-> r.ok, cache |-> [got EXCEPT ![k] = r.limiter]]

\* Manifests: kinds, and the keys requests name (a tool or prompt name, a
\* resource URI).
Kinds == {"tool", "prompt", "resource"}
Keys == {"limited", "disabled", "unknown"}
Targets == Kinds \X Keys

NoManifest == [present |-> FALSE, enabled |-> FALSE, cooldown |-> FALSE]

\* A registry whose manifest "limited" of kind k carries the cooldown; the
\* manifests "limited" of the other kinds carry none, the manifests
\* "disabled" are not enabled, and nothing is registered under "unknown".
RegistryWith(k) ==
    [tg \in Targets |->
        CASE tg[2] = "limited" ->
                [present |-> TRUE, enabled |-> TRUE, cooldown |-> tg[1] = k]
          [] tg[2] = "disabled" ->
                [present |-> TRUE, enabled |-> FALSE, cooldown |-> tg[1] = k]
          [] OTHER -> NoManifest]

\* ManifestRepository.get_manifest
GetManifest(kind, key) == registry[<<kind, key>>]

RATE_LIMIT_EXCEEDED == -32006
INTERNAL_ERROR == -32603

NoData == WindowStats(0, Rat(0, 1), Rat(0, 1), 0)

IdleCall == [pc |-> "idle", kind |-> "tool", key |-> "unknown",
             bucket |-> "global", updates |-> 0, invoked |-> 0,
             code |-> 0, data |-> NoData]

NoConsume == [live |-> FALSE, ok |-> FALSE, at |-> 0, before |-> NoBucket,
              stats |-> NoData]

\* Grant times that still lie within one period of time t.
Recent(times, t, per) == SelectSeq(times, LAMBDA g : g >= t - per)

RateInit ==
    /\ cfg \in Configs
    /\ registry \in {RegistryWith(k) : k \in Kinds}
    /\ now = ClockStart(cfg)
    /\ cache = [k \in BucketKeys |-> NoBucket]
    /\ call = IdleCall
    /\ grants = [k \in BucketKeys |-> <<>>]
    /\ last_consume = NoConsume

\* The error data RateLimitMiddleware raises with: the stats of the bucket
\* get_bucket returns.
MutDenialData(c, ch, k, t) == Stats(c, NewLimiter(c, t), t)

DenialData(c, ch, k, t) == Stats(c, GetBucket(c, ch, k, t)[k], t)

\* Whether _process_rate_limit limits the request: the manifest is found,
\* enabled and has a cooldown.
Limited(m) == m.present /\ m.enabled /\ m.cooldown

\* RateLimitMiddleware._process_rate_limit for a new request, up to its first
\* await or raise: the lookup, the bypass, the update of the bucket, call_next
\* when allowed. Between update_bucket and the read of the stats the
\* middleware does not await: no other request comes in, only the clock moves.
\* Handlers of earlier requests may still be running.
ProcessRateLimit(kind, key, b) ==
    /\ call.pc # "denied"
    /\ LET c == [IdleCall EXCEPT !.kind = kind, !.key = key, !.bucket = b]
           u == UpdateBucket(cfg, cache, b, now, 1)
       IN IF ~Limited(GetManifest(kind, key))
          THEN /\ call' = [c EXCEPT !.pc = "handler", !.invoked = 1,
                                         !.bucket = IdleCall.bucket]
               /\ UNCHANGED cache
          ELSE /\ cache' = u.cache
               /\ IF u.ok
                  THEN call' = [c EXCEPT !.pc = "handler", !.updates = 1,
                                         !.invoked = 1]
                  ELSE call' = [c EXCEPT !.pc = "denied", !.updates = 1]
    /\ UNCHANGED <<cfg, now, registry, grants, last_consume>>

\* _process_rate_limit after a denial: the stats are read and
\* RateLimitExceededError is raised; LoggingMiddleware passes the McpError on
\* and _handle_request answers with its error data.
RaiseRateLimitExceeded ==
    /\ call.pc = "denied"
    /\ cache' = GetBucket(cfg, cache, call.bucket, now)
    /\ call' = [call EXCEPT !.pc = "answered",
                            !.code = RATE_LIMIT_EXCEEDED,
                            !.data = DenialData(cfg, cache, call.bucket, now)]
    /\ UNCHANGED <<cfg, now, registry, grants, last_consume>>

\* The handler ends: with a result, or with an exception LoggingMiddleware
\* turns into an internal error.
HandlerEnds(o) ==
    /\ call.pc = "handler"
    /\ call' = [call EXCEPT !.pc = "answered",
                            !.code = IF o = "result" THEN 0 ELSE INTERNAL_ERROR]
    /\ UNCHANGED <<cfg, now, cache, registry, grants, last_consume>>

\* A call of the limited callable for the bucket key k:
\* CooldownManager.update_bucket decides whether it is granted.
LimitedCall(k) ==
    /\ LET u == UpdateBucket(cfg, cache, k, now, 1) IN
       /\ cache' = u.cache
       /\ grants' = IF u.ok THEN [grants EXCEPT ![k] = Append(@, now)]
                    ELSE grants
    /\ UNCHANGED <<cfg, now, call, registry, last_consume>>

\* The clock advances.
Tick ==
    /\ now < ClockEnd(cfg)
    /\ now' = now + 1
    /\ grants' = [k \in BucketKeys |-> Recent(grants[k], now + 1, cfg.per)]
    /\ last_consume' = NoConsume
    /\ UNCHANGED <<cfg, cache, call, registry>>

\* ----------------------------------------------------- the event store

\* Events stored in one run.
MaxEvents == 3

VARIABLES
    adapter,     \* the EventStoreAdapter in use: "memory" or "sqlite"
    clock,       \* datetime.now(utc), in ticks
    created,     \* number of EventRecords constructed so far
    pending,     \* sqlite: records constructed whose INSERT has not run yet
    stored,      \* the records inserted, in insertion order
    replay       \* the latest replay_events_after: anchor, events sent, result

storeVars == <<adapter, clock, created, pending, stored, replay>>

StreamIds == {"stream-a", "stream-b"}

\* Event ids: uuid4 values, named by creation order; 0 is an id never issued.
EventIds == 0..MaxEvents

\* EventRecord: stream_id, event_id and created_at (the message is carried
\* along unchanged).
EventRecord(sid, eid, t) == [stream_id |-> sid, event_id |-> eid, created_at |-> t]

None == "None"

NoReplay == [live |-> FALSE, anchor |-> 0, sent |-> <<>>, returned |-> None]

Range(f) == {f[k] : k \in DOMAIN f}

\* InMemoryAdapter._events / the row with the given id: get_event.
HasEvent(rows, eid) == \E e \in Range(rows) : e.event_id = eid
GetEvent(rows, eid) == CHOOSE e \in Range(rows) : e.event_id = eid

\* InMemoryAdapter._streams[sid]: the deque of the stream, in insertion order.
StreamEvents(rows, sid) == SelectSeq(rows, LAMBDA e : e.stream_id = sid)

\* InMemoryAdapter.get_events_after
MutMemoryGetEventsAfter(rows, eid) ==
    IF ~HasEvent(rows, eid) THEN <<>>
    ELSE StreamEvents(rows, GetEvent(rows, eid).stream_id)

MemoryGetEventsAfter(rows, eid) ==
    IF ~HasEvent(rows, eid) THEN <<>>
    ELSE LET after_event == GetEvent(rows, eid) IN
         SelectSeq(StreamEvents(rows, after_event.stream_id),
                   LAMBDA e : e.created_at > after_event.created_at)

\* ORDER BY created_at ASC: every arrangement of the rows in ascending
\* created_at; rows with equal created_at come in any order.
AscendingOrders(rowset) ==
    {f \in [1..Cardinality(rowset) -> rowset] :
        /\ \A i, j \in DOMAIN f : i # j => f[i] # f[j]
        /\ \A i, j \in DOMAIN f : i < j => f[i].created_at <= f[j].created_at}

\* SQLiteAdapeter.get_events_after: the results the SELECT may give.
SqliteGetEventsAfter(rows, eid) ==
    IF ~HasEvent(rows, eid) THEN {<<>>}
    ELSE LET last_event == GetEvent(rows, eid) IN
         AscendingOrders({e \in Range(rows) :
                             /\ e.stream_id = last_event.stream_id
                             /\ e.created_at > last_event.created_at})

\* The lists adapter.get_events_after may return.
GetEventsAfter(rows, eid) ==
    IF adapter = "memory" THEN {MemoryGetEventsAfter(rows, eid)}
    ELSE SqliteGetEventsAfter(rows, eid)

\* PersistentEventStore.replay_events_after: its return value for the list
\* the adapter returned.
ReplayResult(events) ==
    IF events # <<>> THEN events[Len(events)].stream_id ELSE None

StoreInit ==
    /\ adapter \in {"memory", "sqlite"}
    /\ clock = 1
    /\ created = 0
    /\ pending = {}
    /\ stored = <<>>
    /\ replay = NoReplay

\* store_event on the in-memory adapter: the record is constructed and
\* inserted without a suspension in between.
StoreEvent(sid) ==
    /\ adapter = "memory"
    /\ created < MaxEvents
    /\ created' = created + 1
    /\ stored' = Append(stored, EventRecord(sid, created + 1, clock))
    /\ replay' = NoReplay
    /\ UNCHANGED <<adapter, clock, pending>>

\* store_event on the sqlite adapter, up to the await of insert_event: the
\* record has its id and created_at.
CreateRecord(sid) ==
    /\ adapter = "sqlite"
    /\ created < MaxEvents
    /\ created' = created + 1
    /\ pending' = pending \cup {EventRecord(sid, created + 1, clock)}
    /\ UNCHANGED <<adapter, clock, stored, replay>>

\* SQLiteAdapeter.insert_event: the INSERT is committed.
InsertEvent(e) ==
    /\ e \in pending
    /\ pending' = pending \ {e}
    /\ stored' = Append(stored, e)
    /\ replay' = NoReplay
    /\ UNCHANGED <<adapter, clock, created>>

\* The wall clock moves on; two records made without a move in between have
\* the same created_at. Only the order of the timestamps matters: a move is
\* taken once a record carries the current reading.
ClockAdvances ==
    /\ clock < MaxEvents
    /\ \E e \in Range(stored) \cup pending : e.created_at = clock
    /\ clock' = clock + 1
    /\ UNCHANGED <<adapter, created, pending, stored, replay>>

\* PersistentEventStore.replay_events_after(a, send_callback)
ReplayEventsAfter(a) ==
    /\ \E events \in GetEventsAfter(stored, a) :
           replay' = [live |-> TRUE, anchor |-> a,
                      sent |-> [k \in DOMAIN events |-> events[k].event_id],
                      returned |-> ReplayResult(events)]
    /\ UNCHANGED <<adapter, clock, created, pending, stored>>

\* ------------------------------------- concurrent calls on the sqlite adapter

\* Calls of store_event / replay_events_after running as concurrent tasks on
\* one PersistentEventStore.
MaxTasks == 2

VARIABLES
    db,          \* SQLiteAdapeter._db: the connection the attribute names
    conns,       \* every connection opened: its state and its open transaction
    tasks        \* the calls: operation, position, the record being stored

connVars == <<db, conns, tasks>>

TaskIds == 1..MaxTasks

Operations == {"store", "replay"}

NoConnection == [state |-> "none", uncommitted |-> {}]

IdleTask == [op |-> "store", pc |-> "idle", event |-> 0]

\* The records of a set, in the order of their ids.
RECURSIVE InIdOrder(_)
InIdOrder(S) ==
    IF S = {} THEN <<>>
    ELSE LET e == CHOOSE x \in S : \A y \in S : x.event_id <= y.event_id
         IN <<e>> \o InIdOrder(S \ {e})

\* An operation on the connection self._db names raises when the connection
\* was closed.
Usable(c) == c \in TaskIds /\ conns[c].state = "open"

\* Connection.commit: the open transaction of the connection reaches the
\* table.
Committed(rows, c) == rows \o InIdOrder(conns[c].uncommitted)

ConnIdle ==
    /\ db = 0
    /\ conns = [c \in TaskIds |-> NoConnection]
    /\ tasks = [i \in TaskIds |-> IdleTask]

\* `async with self._adapter` in either call: __aenter__ up to its first
\* await after the assignment; task i opens connection i and self._db names
\* it from here on.
AEnter(i, op) ==
    /\ tasks[i].pc = "idle"
    /\ db' = i
    /\ conns' = [conns EXCEPT ![i] = [state |-> "open", uncommitted |-> {}]]
    /\ tasks' = [tasks EXCEPT ![i] = [IdleTask EXCEPT !.op = op, !.pc = "schema"]]
    /\ UNCHANGED <<created, stored>>

\* SQLiteAdapeter.init_schema on the connection self._db names now, still
\* inside __aenter__: when it raises, the body and __aexit__ do not run.
InitSchema(i) ==
    /\ tasks[i].pc = "schema"
    /\ IF Usable(db)
       THEN /\ stored' = Committed(stored, db)
            /\ conns' = [conns EXCEPT ![db].uncommitted = {}]
            /\ tasks' = [tasks EXCEPT ![i].pc = "body"]
       ELSE /\ tasks' = [tasks EXCEPT ![i].pc = "failed"]
            /\ UNCHANGED <<conns, stored>>
    /\ UNCHANGED <<db, created>>

\* store_event: the record is made and insert_event executes the INSERT on a
\* cursor of the connection self._db names now.
ExecuteInsert(i, sid) ==
    /\ tasks[i].pc = "body"
    /\ tasks[i].op = "store"
    /\ created' = created + 1
    /\ IF Usable(db)
       THEN /\ conns' = [conns EXCEPT ![db].uncommitted =
                            @ \cup {EventRecord(sid, created + 1, clock)}]
            /\ tasks' = [tasks EXCEPT ![i].pc = "commit",
                                      ![i].event = created + 1]
       ELSE /\ tasks' = [tasks EXCEPT ![i].pc = "raised",
                                      ![i].event = created + 1]
            /\ UNCHANGED conns
    /\ UNCHANGED <<db, stored>>

\* insert_event: `await self._db.commit()` on the connection self._db names
\* now; store_event then returns the event id.
CommitInsert(i) ==
    /\ tasks[i].pc = "commit"
    /\ IF Usable(db)
       THEN /\ stored' = Committed(stored, db)
            /\ conns' = [conns EXCEPT ![db].uncommitted = {}]
            /\ tasks' = [tasks EXCEPT ![i].pc = "returning"]
       ELSE /\ tasks' = [tasks EXCEPT ![i].pc = "raised"]
            /\ UNCHANGED <<conns, stored>>
    /\ UNCHANGED <<db, created>>

\* replay_events_after: get_event for the anchor a, then, when the anchor was
\* found, the SELECT of get_events_after, each on a cursor of the connection
\* self._db names at that moment.
ReplayQuery(i, a) ==
    /\ tasks[i].op = "replay"
    /\ tasks[i].pc \in {"body", "select"}
    /\ tasks' = [tasks EXCEPT ![i].pc =
                    IF ~Usable(db) THEN "raised"
                    ELSE IF tasks[i].pc = "body"
                            /\ HasEvent(Committed(stored, db), a)
                         THEN "select" ELSE "returning"]
    /\ UNCHANGED <<db, conns, created, stored>>

\* __aexit__, after the body returned or raised: the connection self._db
\* names now is closed, and what it had not committed is rolled back.
AExit(i) ==
    /\ tasks[i].pc \in {"returning", "raised"}
    /\ conns' = IF db \in TaskIds
                THEN [conns EXCEPT ![db] = [state |-> "closed", uncommitted |-> {}]]
                ELSE conns
    /\ tasks' = [tasks EXCEPT ![i].pc =
                    IF tasks[i].pc = "returning" THEN "done" ELSE "failed"]
    /\ UNCHANGED <<db, created, stored>>

\* ------------------------------------------------------ manifest loading

\* Manifests loaded in one run.
MaxLoads == 3

VARIABLES
    tools,                   \* ToolManager._tools: name -> callback registered
    resources,               \* ResourceManager._resources: uri -> callback
    templates,               \* ResourceManager._templates: uri template -> callback
    prompts,                 \* PromptManager._prompts: name -> callback
    autocomplete_callbacks,  \* _autocomplete_callbacks: key -> handler's manifest
    loads                    \* the manifests given to _load_manifests, in order

loadVars == <<tools, resources, templates, prompts, autocomplete_callbacks, loads>>

\* Tool and prompt names.
Names == {"echo", "greet"}

\* Resource URIs: a template, a concrete resource, and two URIs only requests
\* name.
Templates == {"resource://user/{user_id}"}
Concrete == {"resource://config"}
Uris == Templates \cup Concrete \cup {"resource://user/42", "resource://user/"}

AllKeys == Names \cup Uris

\* The keys a manifest of a kind is declared under.
ManifestKeys(kind) == IF kind = "resource" THEN Templates \cup Concrete ELSE Names

\* The path segments of each URI after the scheme.
Segments(uri) ==
    CASE uri = "resource://user/{user_id}" -> <<"user", "{user_id}">>
      [] uri = "resource://user/42" -> <<"user", "42">>
      [] uri = "resource://user/" -> <<"user", "">>
      [] OTHER -> <<"config">>

\* `"{" in uri and "}" in uri`
HasUriParams(uri) == \E k \in DOMAIN Segments(uri) : Segments(uri)[k] = "{user_id}"

\* ResourceTemplate.matches: every {param} stands for one or more characters
\* other than "/", everything else matches literally.
Matches(template, uri) ==
    LET a == Segments(template)
        b == Segments(uri)
    IN /\ Len(a) = Len(b)
       /\ \A k \in DOMAIN a :
              IF a[k] = "{user_id}" THEN b[k] # "" ELSE a[k] = b[k]

\* No callback / no manifest under a key.
NoFn == 0

\* The registry entry of a key nothing was added under.
Absent == [present |-> FALSE, enabled |-> FALSE, cooldown |-> FALSE,
           checks |-> <<>>, fn |-> NoFn, autocomplete |-> FALSE]

\* A manifest: its callback fn identifies it.
Manifest(kind, key, enabled, cooldown, checks, fn, autocomplete) ==
    [kind |-> kind, key |-> key, enabled |-> enabled, cooldown |-> cooldown,
     checks |-> checks, fn |-> fn, autocomplete |-> autocomplete]

\* The server state _load_manifests works on.
EmptyServer ==
    [registry |-> [tg \in Kinds \X AllKeys |-> Absent],
     tools |-> [n \in Names |-> NoFn],
     resources |-> [u \in Uris |-> NoFn],
     templates |-> [u \in Uris |-> NoFn],
     prompts |-> [n \in Names |-> NoFn],
     autocomplete_callbacks |-> [k \in AllKeys |-> NoFn]]

\* ManifestRepository.add_manifest: the entry under (type, key) is assigned.
AddManifest(reg, m) ==
    [reg EXCEPT ![<<m.kind, m.key>>] =
        [present |-> TRUE, enabled |-> m.enabled, cooldown |-> m.cooldown,
         checks |-> m.checks, fn |-> m.fn, autocomplete |-> m.autocomplete]]

\* Whether _load_manifests registers the callback of a manifest.
MutRegisters(m) == TRUE

Registers(m) == m.enabled

\* add_tool / add_resource / add_prompt: an existing entry stays.
KeepExisting(table, key, fn) ==
    IF table[key] # NoFn THEN table ELSE [table EXCEPT ![key] = fn]

\* add_template and _add_autocomplete_callback: the entry is assigned.
Assign(table, key, fn) == [table EXCEPT ![key] = fn]

\* _load_manifests for one manifest.
Load(S, m) ==
    LET R == Registers(m)
        ac == R /\ m.autocomplete /\ m.kind # "tool"
    IN [registry |-> AddManifest(S.registry, m),
        tools |-> IF R /\ m.kind = "tool"
                  THEN KeepExisting(S.tools, m.key, m.fn) ELSE S.tools,
        resources |-> IF R /\ m.kind = "resource" /\ ~HasUriParams(m.key)
                      THEN KeepExisting(S.resources, m.key, m.fn)
                      ELSE S.resources,
        templates |-> IF R /\ m.kind = "resource" /\ HasUriParams(m.key)
                      THEN Assign(S.templates, m.key, m.fn) ELSE S.templates,
        prompts |-> IF R /\ m.kind = "prompt"
                    THEN KeepExisting(S.prompts, m.key, m.fn) ELSE S.prompts,
        autocomplete_callbacks |->
            IF ac THEN Assign(S.autocomplete_callbacks, m.key, m.fn)
            ELSE S.autocomplete_callbacks]

\* _load_manifests for a list of manifests.
RECURSIVE LoadAll(_, _)
LoadAll(S, ms) ==
    IF ms = <<>> THEN S ELSE LoadAll(Load(S, Head(ms)), Tail(ms))

\* The server state the variables hold.
Server ==
    [registry |-> registry, tools |-> tools, resources |-> resources,
     templates |-> templates, prompts |-> prompts,
     autocomplete_callbacks |-> autocomplete_callbacks]

\* The variables hold the server state S.
ServerIs(S) ==
    /\ registry = S.registry
    /\ tools = S.tools
    /\ resources = S.resources
    /\ templates = S.templates
    /\ prompts = S.prompts
    /\ autocomplete_callbacks = S.autocomplete_callbacks

LoadIdle ==
    /\ tools = EmptyServer.tools
    /\ resources = EmptyServer.resources
    /\ templates = EmptyServer.templates
    /\ prompts = EmptyServer.prompts
    /\ autocomplete_callbacks = EmptyServer.autocomplete_callbacks
    /\ loads = <<>>

\* A plugin's manifest reaches _load_manifests.
LoadManifest(kind, key, enabled, autocomplete) ==
    /\ Len(loads) < MaxLoads
    /\ key \in ManifestKeys(kind)
    /\ autocomplete => (kind = "prompt" \/ HasUriParams(key))
    /\ LET m == Manifest(kind, key, enabled, FALSE, <<>>, Len(loads) + 1,
                         autocomplete)
           S == Load(Server, m)
       IN /\ registry' = S.registry
          /\ tools' = S.tools
          /\ resources' = S.resources
          /\ templates' = S.templates
          /\ prompts' = S.prompts
          /\ autocomplete_callbacks' = S.autocomplete_callbacks
          /\ loads' = Append(loads, m)

\* tools/list, resources/list, resources/templates/list, prompts/list: the
\* callbacks behind the entries returned.
Listed ==
    ({tools[n] : n \in Names} \cup {resources[u] : u \in Uris}
        \cup {templates[u] : u \in Uris} \cup {prompts[n] : n \in Names})
    \ {NoFn}

\* ResourceManager.get_resource: the callback serving a URI; concrete
\* resources first, then the templates that match.
GetResource(res, tpl, uri) ==
    IF res[uri] # NoFn THEN {res[uri]}
    ELSE {tpl[u] : u \in {v \in Uris : tpl[v] # NoFn /\ Matches(v, uri)}}

\* tools/call, resources/read, prompts/get: the callbacks a request can reach.
Invocable ==
    ({tools[n] : n \in Names} \cup {prompts[n] : n \in Names}
        \cup UNION {GetResource(resources, templates, u) : u \in Uris})
    \ {NoFn}

\* _autocomplete_base_handler: the handlers completion/complete can reach.
Autocompleting == {autocomplete_callbacks[k] : k \in AllKeys} \ {NoFn}

\* ---------------------------------------------------- the middleware chain

\* Predicates a manifest carries at most.
MaxChecks == 2

VARIABLES
    middlewares,   \* BaseDiscordMCPServer.middlewares
    dispatch       \* the latest message handled: inputs, what ran, the answer

chainVars == <<middlewares, dispatch>>

PARSE_ERROR == -32700
METHOD_NOT_FOUND == -32601
INVALID_PARAMS == -32602
RESOURCE_NOT_FOUND == -32001
RESOURCE_READ_ERROR == -32002
PROMPT_NOT_FOUND == -32003
PROMPT_RENDER_ERROR == -32004
PERMISSION_DENIED == -32007
CHECK_FAILURE == -32008

\* The middlewares a server starts with.
DefaultMiddlewares == <<"Logging", "RateLimit">>

\* Middleware instances users add: ChecksMiddleware, and instances of the
\* base class Middleware, which overrides no hook.
PassThroughs == {"PassThrough1", "PassThrough2"}
Addable == {"Checks"} \cup PassThroughs

IsPassThrough(mw) == mw \in PassThroughs

\* isinstance(m, cls) for the middleware classes.
MiddlewareType(mw) == IF IsPassThrough(mw) THEN "PassThrough" ELSE mw
MiddlewareTypes == {"Logging", "RateLimit", "Checks", "PassThrough"}

\* The messages a client sends.
Request(method, key) == [event_type |-> "request", method |-> method, key |-> key]
Notification(method) ==
    [event_type |-> "notification", method |-> method, key |-> "none"]

ManifestMethods == {"tools/call", "prompts/get", "resources/read"}
OtherRequestMethods == {"tools/list", "ping", "logging/setLevel", "initialize"}
NotificationMethods ==
    {"notifications/initialized", "notifications/roots/list_changed",
     "notifications/progress", "notifications/cancelled"}

Messages ==
    {Request("tools/call", n) : n \in Names}
        \cup {Request("prompts/get", n) : n \in Names}
        \cup {Request("resources/read", u) : u \in Uris}
        \cup {Request(m, "none") : m \in OtherRequestMethods}
        \cup {Notification(m) : m \in NotificationMethods}

\* The manifest class each hook looks its key up under.
ManifestKind(method) ==
    CASE method = "tools/call" -> "tool"
      [] method = "prompts/get" -> "prompt"
      [] OTHER -> "resource"

\* request_handlers: what _setup_handlers registers, and the ping handler of
\* the low-level server.
Registered(method) ==
    method \in ManifestMethods \cup {"tools/list", "ping"}

\* Exception classes and the class each derives from.
ExceptionTypes ==
    {"TypeError", "ValueError", "JSONDecodeError", "ValidationError",
     "UnicodeDecodeError", "KeyError", "FileNotFoundError", "OSError",
     "IsADirectoryError", "PermissionError", "AssertionError", "RuntimeError",
     "AttributeError"}

Base(e) ==
    CASE e \in {"JSONDecodeError", "ValidationError", "UnicodeDecodeError"} ->
             "ValueError"
      [] e \in {"FileNotFoundError", "IsADirectoryError", "PermissionError"} ->
             "OSError"
      [] OTHER -> "Exception"

\* isinstance(exception, classes)
RECURSIVE IsInstance(_, _)
IsInstance(e, classes) ==
    \/ e \in classes
    \/ e # "Exception" /\ IsInstance(Base(e), classes)

\* LoggingMiddleware._process_exception for an exception that is not an
\* McpError: the code of the error it returns.
ProcessException(e) ==
    IF IsInstance(e, {"ValueError", "TypeError"}) THEN INVALID_PARAMS
    ELSE IF IsInstance(e, {"JSONDecodeError", "ValidationError",
                           "UnicodeDecodeError"}) THEN PARSE_ERROR
    ELSE IF IsInstance(e, {"FileNotFoundError", "KeyError"})
         THEN RESOURCE_NOT_FOUND
    ELSE IF IsInstance(e, {"OSError", "IsADirectoryError"})
         THEN RESOURCE_READ_ERROR
    ELSE IF IsInstance(e, {"PermissionError"}) THEN PERMISSION_DENIED
    ELSE IF IsInstance(e, {"AssertionError"}) THEN CHECK_FAILURE
    ELSE INTERNAL_ERROR

\* How a call ends: a result (value: the callback that made it), an McpError
\* (value: what the error names), or another exception.
Ok(v) == [kind |-> "result", code |-> 0, exc |-> "none", value |-> v]
McpErr(c, v) == [kind |-> "mcp_error", code |-> c, exc |-> "McpError", value |-> v]
Raised(e) == [kind |-> "exception", code |-> 0, exc |-> e, value |-> 0]
NoAnswer == [kind |-> "none", code |-> 0, exc |-> "none", value |-> 0]

\* What the callbacks do in one dispatch: "result", or the exception raised.
CallbackOutcomes(msg) ==
    IF msg.method = "tools/list"
    THEN {"result"} \cup (ExceptionTypes \ {"AttributeError"})
    ELSE IF msg.method \in ManifestMethods THEN {"result", "RuntimeError"}
    ELSE {"result"}

\* The method handlers, on the state S of the managers.
\* _read_resource: get_resource raises ValueError for a URI nothing serves
\* and for a template whose callback raises; a failing read of a concrete
\* resource becomes ResourceReadError.
ReadResource(S, uri, o) ==
    LET found == GetResource(S.resources, S.templates, uri) IN
    IF found = {} THEN Raised("ValueError")
    ELSE IF o = "result" THEN Ok(CHOOSE f \in found : TRUE)
    ELSE IF S.resources[uri] # NoFn THEN McpErr(RESOURCE_READ_ERROR, 0)
    ELSE Raised("ValueError")

\* _get_prompt: every exception, the one for an unknown prompt included,
\* becomes PromptRenderError.
GetPrompt(S, name, o) ==
    IF S.prompts[name] = NoFn \/ o # "result" THEN McpErr(PROMPT_RENDER_ERROR, 0)
    ELSE Ok(S.prompts[name])

\* _call_tool: the tool manager raises for an unknown tool.
CallTool(S, name, o) ==
    IF S.tools[name] = NoFn THEN Raised("RuntimeError")
    ELSE IF o = "result" THEN Ok(S.tools[name])
    ELSE Raised(o)

Handler(S, msg, o) ==
    CASE msg.method = "tools/call" -> CallTool(S, msg.key, o)
      [] msg.method = "prompts/get" -> GetPrompt(S, msg.key, o)
      [] msg.method = "resources/read" -> ReadResource(S, msg.key, o)
      [] msg.method = "tools/list" -> IF o = "result" THEN Ok(0) ELSE Raised(o)
      [] OTHER -> Ok(0)

\* One entry of what ran: a middleware's on_message, an update of a bucket,
\* a predicate (n: its position in manifest.checks), the terminal handler.
Ev(at, n) == [at |-> at, n |-> n]

\* The first predicate of checks that is falsy under verdicts, 0 when none.
MutFirstFalsy(checks, verdicts) == 0

FirstFalsy(checks, verdicts) ==
    LET falsy == {j \in DOMAIN checks : ~verdicts[checks[j]]}
    IN IF falsy = {} THEN 0 ELSE CHOOSE j \in falsy : \A i \in falsy : j <= i

\* How the call of the middleware at position k ends: its call_next returned
\* and the rest of its hook runs ("post"), or an exception raised further in
\* passes through it ("unwind").
Leave(out, k) == Ev(IF out.kind = "result" THEN "post" ELSE "unwind", k)

\* _apply_middlewares(handler) called with the message: the middlewares
\* mws[k..] around the terminal wrapper. wrapped says whether a middleware
\* has made a MiddlewareContext of the message; the wrapper reads
\* ctx.message, which the bare message does not have. ch is the cache of the
\* cooldown the limited manifest carries. The trace lists what ran: the entry
\* of each middleware, what its hook did, the handler, and how each call
\* ended; a middleware that raises itself leaves a "raise" entry.
RECURSIVE RunChain(_, _, _, _, _, _, _, _)
RunChain(mws, k, S, msg, o, verdicts, ch, wrapped) ==
    IF k > Len(mws)
    THEN IF wrapped
         THEN [trace |-> <<Ev("handler", 0)>>, out |-> Handler(S, msg, o),
               cache |-> ch, handled |-> msg]
         ELSE [trace |-> <<>>, out |-> Raised("AttributeError"),
               cache |-> ch, handled |-> Notification("none")]
    ELSE
    LET mw == MiddlewareType(mws[k])
        entry == Ev(mws[k], 0)
        hooked == msg.method \in ManifestMethods
        manifest == S.registry[<<ManifestKind(msg.method), msg.key>>]
        Under(r) == [r EXCEPT !.trace = <<entry>> \o @ \o <<Leave(r.out, k)>>]
    IN
    CASE mw = "Logging" ->
            LET r == RunChain(mws, k + 1, S, msg, o, verdicts, ch, TRUE) IN
            Under([r EXCEPT !.out =
                      IF r.out.kind = "exception"
                      THEN McpErr(ProcessException(r.out.exc), 0)
                      ELSE r.out])
      [] mw = "RateLimit" ->
            IF ~(hooked /\ Limited(manifest))
            THEN Under(RunChain(mws, k + 1, S, msg, o, verdicts, ch, TRUE))
            ELSE LET u == UpdateBucket(cfg, ch, SessionKey, now, 1) IN
                 IF u.ok
                 THEN LET r == RunChain(mws, k + 1, S, msg, o, verdicts,
                                        u.cache, TRUE)
                      IN [r EXCEPT !.trace = <<entry, Ev("update", 0)>> \o @
                                               \o <<Leave(r.out, k)>>]
                 ELSE [trace |-> <<entry, Ev("update", 0), Ev("raise", k)>>,
                       out |-> McpErr(RATE_LIMIT_EXCEEDED, 0),
                       cache |-> GetBucket(cfg, u.cache, SessionKey, now),
                       handled |-> Notification("none")]
      [] mw = "Checks" ->
            IF ~(hooked /\ manifest.present /\ manifest.enabled
                    /\ manifest.checks # <<>>)
            THEN Under(RunChain(mws, k + 1, S, msg, o, verdicts, ch, TRUE))
            ELSE LET f == FirstFalsy(manifest.checks, verdicts)
                     last == IF f = 0 THEN Len(manifest.checks) ELSE f
                     ran == [j \in 1..last |-> Ev("predicate", j)]
                 IN IF f # 0
                    THEN [trace |-> <<entry>> \o ran \o <<Ev("raise", k)>>,
                          out |-> McpErr(CHECK_FAILURE, manifest.checks[f]),
                          cache |-> ch, handled |-> Notification("none")]
                    ELSE LET r == RunChain(mws, k + 1, S, msg, o, verdicts,
                                           ch, TRUE)
                         IN [r EXCEPT !.trace = <<entry>> \o ran \o @
                                                  \o <<Leave(r.out, k)>>]
      [] OTHER -> Under(RunChain(mws, k + 1, S, msg, o, verdicts, ch, TRUE))

\* _handle_request: the response made of the way the chain ended.
Response(out) ==
    IF out.kind = "exception" THEN McpErr(INTERNAL_ERROR, 0) ELSE out

\* The manifests of the plugin the server loads at startup, the cooldown on
\* the manifests of kind k: a tool and a prompt "echo" and a resource
\* template with checks, a disabled tool "greet", a concrete resource.
ChainPlugin(k) ==
    <<Manifest("tool", "echo", TRUE, k = "tool", [j \in 1..MaxChecks |-> j], 1, FALSE),
      Manifest("tool", "greet", FALSE, k = "tool", <<1>>, 2, FALSE),
      Manifest("prompt", "echo", TRUE, k = "prompt", <<1>>, 3, FALSE),
      Manifest("resource", "resource://user/{user_id}", TRUE, k = "resource",
               [j \in 1..MaxChecks |-> j], 4, FALSE),
      Manifest("resource", "resource://config", TRUE, FALSE, <<>>, 5, FALSE)>>

NoDispatch ==
    [live |-> FALSE, msg |-> Notification("none"), o |-> "result",
     verdicts |-> [j \in 1..MaxChecks |-> TRUE], chain |-> <<>>,
     chained |-> 0, trace |-> <<>>, handled |-> Notification("none"),
     answer |-> NoAnswer]

ChainIdle ==
    /\ middlewares = DefaultMiddlewares
    /\ dispatch = NoDispatch

\* add_middleware, between two messages: a middleware already in the list is
\* skipped.
AddMiddleware(mw) ==
    /\ ~dispatch.live
    /\ \A k \in DOMAIN middlewares : middlewares[k] # mw
    /\ middlewares' = Append(middlewares, mw)
    /\ UNCHANGED dispatch

\* remove_middleware(cls), between two messages: every instance of the class
\* goes.
RemoveMiddleware(cls) ==
    /\ ~dispatch.live
    /\ \E k \in DOMAIN middlewares : MiddlewareType(middlewares[k]) = cls
    /\ middlewares' = SelectSeq(middlewares, LAMBDA m : MiddlewareType(m) # cls)
    /\ UNCHANGED dispatch

\* One inbound message of an initialized session, from the receive loop to
\* its answer: initialize is answered by the session; a cancelled
\* notification is acted on in the receive loop and not handed on; a request
\* with no registered handler is answered MethodNotFound; everything else
\* runs through _apply_middlewares.
HandleMessage(msg, o, verdicts) ==
    LET bare == [NoDispatch EXCEPT !.live = TRUE, !.msg = msg, !.o = o,
                                   !.verdicts = verdicts,
                                   !.chain = middlewares]
        r == RunChain(middlewares, 1, Server, msg, o, verdicts, cache, FALSE)
        ran == [bare EXCEPT !.chained = 1, !.trace = r.trace,
                            !.handled = r.handled]
    IN
    /\ ~dispatch.live
    /\ IF msg.method = "initialize"
       THEN /\ dispatch' = [bare EXCEPT !.answer = Ok(0)]
            /\ UNCHANGED cache
       ELSE IF msg.method = "notifications/cancelled"
       THEN /\ dispatch' = bare
            /\ UNCHANGED cache
       ELSE IF msg.event_type = "notification"
       THEN /\ dispatch' = ran
            /\ cache' = r.cache
       ELSE IF ~Registered(msg.method)
       THEN /\ dispatch' = [bare EXCEPT !.answer = McpErr(METHOD_NOT_FOUND, 0)]
            /\ UNCHANGED cache
       ELSE /\ dispatch' = [ran EXCEPT !.answer = Response(r.out)]
            /\ cache' = r.cache

\* The answer is written (or the notification is done with) and the run loop
\* takes the next message.
MessageDone ==
    /\ dispatch.live
    /\ dispatch' = NoDispatch

\* The predicate results one dispatch draws.
Verdicts(msg) ==
    IF msg.method \in ManifestMethods THEN [1..MaxChecks -> BOOLEAN]
    ELSE {[j \in 1..MaxChecks |-> TRUE]}

\* ------------------------------------------- the platform-client lifecycle

\* Sessions one server process serves, and request handlers one session has
\* in flight at most.
MaxSessions == 2
MaxHandlers == 2

VARIABLES
    transport,     \* "stdio" (STDIODiscordMCPServer) or "http" (Starlette app)
    bot,           \* the platform client: login, the connect task, ready, closed
    lifespan,      \* where _manage_bot_lifecycle stands
    manager,       \* StreamableHTTPSessionManager.run() of the http transport
    sessions,      \* per session: "none", "open" or "closed"
    handlers       \* per session: request handlers in flight

lifeVars == <<transport, bot, lifespan, manager, sessions, handlers>>

Transports == {"stdio", "http"}
SessionIds == 1..MaxSessions

NewBot == [login |-> "none", task |-> "none", ready |-> FALSE, closed |-> FALSE]

LifeIdle ==
    /\ transport = "stdio"
    /\ bot = NewBot
    /\ lifespan = "start"
    /\ manager = "idle"
    /\ sessions = [s \in SessionIds |-> "none"]
    /\ handlers = [s \in SessionIds |-> 0]

\* A process that was started on either transport.
LifeInit ==
    /\ transport \in Transports
    /\ bot = NewBot
    /\ lifespan = "start"
    /\ manager = "idle"
    /\ sessions = [s \in SessionIds |-> "none"]
    /\ handlers = [s \in SessionIds |-> 0]

\* starlette_lifespan: the session manager is entered before the bot
\* lifecycle, and so left after it.
ManagerRuns ==
    /\ transport = "http"
    /\ manager = "idle"
    /\ manager' = "running"
    /\ UNCHANGED <<transport, bot, lifespan, sessions, handlers>>

\* _manage_bot_lifecycle: await bot.login(token). A failure is raised out of
\* the context manager, before its try block.
Login(ok) ==
    /\ lifespan = "start"
    /\ transport = "http" => manager = "running"
    /\ bot' = [bot EXCEPT !.login = IF ok THEN "ok" ELSE "failed"]
    /\ lifespan' = IF ok THEN "logged_in" ELSE "error"
    /\ UNCHANGED <<transport, manager, sessions, handlers>>

\* _bot_task = asyncio.create_task(bot.connect())
CreateConnectTask ==
    /\ lifespan = "logged_in"
    /\ bot' = [bot EXCEPT !.task = "running"]
    /\ lifespan' = "waiting"
    /\ UNCHANGED <<transport, manager, sessions, handlers>>

\* The connect task: the gateway reports ready.
GatewayReady ==
    /\ bot.task = "running"
    /\ ~bot.ready
    /\ bot' = [bot EXCEPT !.ready = TRUE]
    /\ UNCHANGED <<transport, lifespan, manager, sessions, handlers>>

\* The connect task ends with an exception; nothing awaits the task before
\* the finally block.
ConnectFails ==
    /\ bot.task = "running"
    /\ bot' = [bot EXCEPT !.task = "failed"]
    /\ UNCHANGED <<transport, lifespan, manager, sessions, handlers>>

\* bot.wait_until_ready() returns once the ready event is set.
MutReady(b) == TRUE

Ready(b) == b.ready

\* await bot.wait_until_ready() returns and the lifespan value is yielded.
WaitUntilReady ==
    /\ lifespan = "waiting"
    /\ Ready(bot)
    /\ lifespan' = "yielded"
    /\ UNCHANGED <<transport, bot, manager, sessions, handlers>>

\* The server takes sessions: on stdio run enters its one session after the
\* lifespan; on http the ASGI server serves once lifespan startup completed.
Serving ==
    /\ lifespan = "yielded"
    /\ transport = "http" => manager = "running"

\* run enters DiscordMCPServerSession (stdio), or the session manager starts
\* run for a new session (http).
OpenSession(s) ==
    /\ Serving
    /\ sessions[s] = "none"
    /\ transport = "stdio" => s = 1
    /\ sessions' = [sessions EXCEPT ![s] = "open"]
    /\ UNCHANGED <<transport, bot, lifespan, manager, handlers>>

\* run: tg.start_soon(self._handle_message, ...) for a request.
Dispatch(s) ==
    /\ Serving
    /\ sessions[s] = "open"
    /\ handlers[s] < MaxHandlers
    /\ handlers' = [handlers EXCEPT ![s] = @ + 1]
    /\ UNCHANGED <<transport, bot, lifespan, manager, sessions>>

HandlerDone(s) ==
    /\ handlers[s] > 0
    /\ handlers' = [handlers EXCEPT ![s] = @ - 1]
    /\ UNCHANGED <<transport, bot, lifespan, manager, sessions>>

\* The session's input ends (stdio: end of input; http: the session is
\* terminated): the task group of run waits for its handlers, then the
\* session is left.
CloseSession(s) ==
    /\ sessions[s] = "open"
    /\ handlers[s] = 0
    /\ sessions' = [sessions EXCEPT ![s] = "closed"]
    /\ UNCHANGED <<transport, bot, lifespan, manager, handlers>>

\* The body of the lifespan context ends and the finally block of
\* _manage_bot_lifecycle begins. On stdio the exit stack of run leaves the
\* session first; on http the ASGI server has let the open requests finish,
\* while the sessions stay in the session manager until its run() is left.
LifespanExits ==
    /\ lifespan = "yielded"
    /\ IF transport = "stdio"
       THEN sessions[1] = "closed"
       ELSE \A s \in SessionIds : handlers[s] = 0
    /\ lifespan' = "exiting"
    /\ UNCHANGED <<transport, bot, manager, sessions, handlers>>

\* finally: _bot_task.cancel(); await _bot_task (its exception is logged).
CancelConnectTask ==
    /\ lifespan = "exiting"
    /\ bot' = [bot EXCEPT !.task = IF @ = "running" THEN "cancelled" ELSE @]
    /\ lifespan' = "task_ended"
    /\ UNCHANGED <<transport, manager, sessions, handlers>>

\* finally: await bot.close()
CloseBot ==
    /\ lifespan = "task_ended"
    /\ bot' = [bot EXCEPT !.closed = TRUE, !.ready = FALSE]
    /\ lifespan' = "closed"
    /\ UNCHANGED <<transport, manager, sessions, handlers>>

\* starlette_lifespan: session_manager.run() is left after the bot
\* lifecycle; its task group is cancelled and with it every session.
ManagerStops ==
    /\ transport = "http"
    /\ manager = "running"
    /\ lifespan \in {"closed", "error"}
    /\ manager' = "stopped"
    /\ sessions' = [s \in SessionIds |->
                       IF sessions[s] = "open" THEN "closed" ELSE sessions[s]]
    /\ handlers' = [s \in SessionIds |-> 0]
    /\ UNCHANGED <<transport, bot, lifespan>>

\* --------------------------------------------- teardown of the read loop

\* Outgoing requests (server to client) one session sends.
MaxOut == 3

VARIABLES
    response_streams,  \* BaseSession._response_streams: the entries of the dict
    out_streams,       \* per outgoing request: what its response stream got
    waiters,           \* per outgoing request: the task inside send_request
    teardown           \* the read loop: reading, or where its finally block is

downVars == <<response_streams, out_streams, waiters, teardown>>

OutIds == 1..MaxOut

\* A dict keeps its entries in insertion order; a deleted entry leaves a hole
\* (0) that an iterator steps over. No is the value of an absent field.
Hole == 0
No == 0

\* len(dict)
Used(entries) == Cardinality({k \in DOMAIN entries : entries[k] # Hole})

\* dict.pop(key, None)
Pop(entries, r) == [k \in DOMAIN entries |-> IF entries[k] = r THEN Hole ELSE entries[k]]

\* The ids in the dict.
KeysOf(entries) == {entries[k] : k \in DOMAIN entries} \ {Hole}

NewStream == [errors |-> 0, responses |-> 0, closed |-> FALSE]

Reading == [pc |-> "reading", used |-> 0, pos |-> 1, cur |-> No, pending |-> {}]

DownIdle ==
    /\ response_streams = <<>>
    /\ out_streams = [r \in OutIds |-> NewStream]
    /\ waiters = [r \in OutIds |-> "none"]
    /\ teardown = Reading

\* Other tasks of the session run while the loop task is suspended: while it
\* waits for the next message, and at the checkpoint of stream.send.
LoopSuspended == teardown.pc \in {"reading", "sent"}

\* BaseSession.send_request in a handler task: the next request id is taken,
\* its response stream is put into the dict and the task waits for the answer.
SendRequest(r) ==
    /\ LoopSuspended
    /\ waiters[r] = "none"
    /\ \A q \in OutIds : q < r => waiters[q] # "none"
    /\ response_streams' = Append(response_streams, r)
    /\ waiters' = [waiters EXCEPT ![r] = "waiting"]
    /\ UNCHANGED <<out_streams, teardown>>

\* _receive_loop, a response or error frame: the stream is popped from the
\* dict and the frame is sent to it.
ReceiveResponse(r) ==
    /\ teardown.pc = "reading"
    /\ r \in KeysOf(response_streams)
    /\ response_streams' = Pop(response_streams, r)
    /\ out_streams' = [out_streams EXCEPT ![r].responses = @ + 1]
    /\ waiters' = [waiters EXCEPT ![r] = "woken"]
    /\ UNCHANGED teardown

\* send_request, its finally block once the waiting has ended: the entry is
\* popped and the stream closed. how: the task was woken by a frame on its
\* stream ("answered"), or it stopped waiting by itself, on its timeout or by
\* cancellation of its handler ("gave_up").
LeaveSendRequest(r, how) ==
    /\ LoopSuspended \/ teardown.pc \in {"raised", "cleared"}
    /\ waiters[r] = (IF how = "answered" THEN "woken" ELSE "waiting")
    /\ response_streams' = Pop(response_streams, r)
    /\ out_streams' = [out_streams EXCEPT ![r].closed = TRUE]
    /\ waiters' = [waiters EXCEPT ![r] = how]
    /\ UNCHANGED teardown

\* The read stream is closed, or the loop raised: the finally block starts
\* `for id, stream in self._response_streams.items()`.
ReadLoopEnds ==
    /\ teardown.pc = "reading"
    /\ teardown' = [pc |-> "iterating", used |-> Used(response_streams),
                    pos |-> 1, cur |-> No,
                    pending |-> KeysOf(response_streams)]
    /\ UNCHANGED <<response_streams, out_streams, waiters>>

\* The entries an iterator at position pos still has to visit.
Ahead(entries, pos) == {k \in DOMAIN entries : k >= pos /\ entries[k] # Hole}

\* One step of the for statement: the iterator raises RuntimeError when the
\* size of the dict is not the one it started with, and the error leaves the
\* finally block before clear(); at the end of the entries clear() runs;
\* otherwise the error frame is sent to the next stream (a failing send is
\* swallowed by `except Exception: pass`, and aclose with it).
NextStream ==
    /\ teardown.pc = "iterating"
    /\ IF Used(response_streams) # teardown.used
       THEN /\ teardown' = [teardown EXCEPT !.pc = "raised", !.cur = No]
            /\ UNCHANGED <<response_streams, out_streams, waiters>>
       ELSE IF Ahead(response_streams, teardown.pos) = {}
       THEN /\ teardown' = [teardown EXCEPT !.pc = "cleared", !.cur = No]
            /\ response_streams' = <<>>
            /\ UNCHANGED <<out_streams, waiters>>
       ELSE LET k == CHOOSE j \in Ahead(response_streams, teardown.pos) :
                         \A i \in Ahead(response_streams, teardown.pos) : j <= i
                r == response_streams[k]
            IN IF out_streams[r].closed
               THEN /\ teardown' = [teardown EXCEPT !.pos = k + 1, !.cur = No]
                    /\ UNCHANGED <<response_streams, out_streams, waiters>>
               ELSE /\ teardown' = [teardown EXCEPT !.pc = "sent",
                                                    !.pos = k + 1, !.cur = r]
                    /\ out_streams' = [out_streams EXCEPT ![r].errors = @ + 1]
                    /\ waiters' = [waiters EXCEPT ![r] =
                                      IF @ = "waiting" THEN "woken" ELSE @]
                    /\ UNCHANGED response_streams

\* The loop task resumes after the checkpoint of stream.send: stream.aclose().
CloseStream ==
    /\ teardown.pc = "sent"
    /\ out_streams' = [out_streams EXCEPT ![teardown.cur].closed = TRUE]
    /\ teardown' = [teardown EXCEPT !.pc = "iterating", !.cur = No]
    /\ UNCHANGED <<response_streams, waiters>>

\* ------------------------------------- the dispatch loop of one session

\* Messages the client sends before its input ends.
MaxMsgs == 3

VARIABLES
    arrivals,      \* the messages read, in arrival order, and their tasks
    flight,        \* _in_flight: per request id the responder stored under it
    loop,          \* _receive_loop: "reading", "handing" or "ended"
    run            \* run: "receiving", "draining", "returned" or "raised"

runVars == <<arrivals, flight, loop, run>>

\* The request ids the client uses; it may use one again while the earlier
\* request is in flight.
ClientIds == {1, 2}

Arrival(type, id) == [type |-> type, id |-> id, st |-> "handing"]

RunIdle ==
    /\ arrivals = <<>>
    /\ flight = [i \in ClientIds |-> No]
    /\ loop = "reading"
    /\ run = "receiving"

\* Tasks of the task group of run that have not ended.
Live(k) == arrivals[k].st \in {"started", "running", "suspended", "responding",
                               "written"}

\* _receive_loop, a valid request on an initialized session: the responder
\* is stored under its id and handed to the incoming stream of run.
ReadRequest(id) ==
    /\ loop = "reading"
    /\ Len(arrivals) < MaxMsgs
    /\ arrivals' = Append(arrivals, Arrival("request", id))
    /\ flight' = [flight EXCEPT ![id] = Len(arrivals) + 1]
    /\ loop' = "handing"
    /\ UNCHANGED run

\* _receive_loop, a valid notification other than a cancellation.
ReadNotification ==
    /\ loop = "reading"
    /\ Len(arrivals) < MaxMsgs
    /\ arrivals' = Append(arrivals, Arrival("notification", No))
    /\ loop' = "handing"
    /\ UNCHANGED <<flight, run>>

\* run is at `async for message in session.incoming_messages`; start_soon
\* does not wait for the task it starts.
MutRunLoopReady == run = "receiving" /\ \A k \in DOMAIN arrivals : ~Live(k)

RunLoopReady == run = "receiving"

\* run takes the message the read loop hands over: tg.start_soon.
StartSoon ==
    /\ loop = "handing"
    /\ RunLoopReady
    /\ arrivals' = [arrivals EXCEPT ![Len(arrivals)].st = "started"]
    /\ loop' = "reading"
    /\ UNCHANGED <<flight, run>>

\* A started task begins to run, the tasks in the order they were started.
\* A request task enters `with responder` and the chain, where its handler
\* waits; a notification task runs to its terminal handler unless a
\* middleware hook of the chain suspends before call_next.
TaskEnters(k, suspends) ==
    /\ arrivals[k].st = "started"
    /\ \A j \in 1..(k - 1) : arrivals[j].st # "started"
    /\ arrivals' = [arrivals EXCEPT ![k].st =
                       IF arrivals[k].type = "request" THEN "running"
                       ELSE IF suspends THEN "suspended"
                       ELSE "done"]
    /\ UNCHANGED <<flight, loop, run>>

\* A suspended notification task resumes and its terminal handler runs.
NotificationHandled(k) ==
    /\ arrivals[k].st = "suspended"
    /\ arrivals' = [arrivals EXCEPT ![k].st = "done"]
    /\ UNCHANGED <<flight, loop, run>>

\* on_complete: self._in_flight.pop(r.request_id, None)
OnComplete(id) == [flight EXCEPT ![id] = No]

\* _handle_request: the chain of a request ends and message.respond sends
\* the response. On a write stream the ended read loop has closed the send
\* raises: the responder, completed, leaves the table, the exception leaves
\* the task, and the task group cancels the others and raises out of run.
RequestHandled(k) ==
    /\ arrivals[k].st = "running"
    /\ IF loop = "ended"
       THEN /\ arrivals' = [j \in DOMAIN arrivals |->
                   IF j = k THEN [arrivals[j] EXCEPT !.st = "raised"]
                   ELSE IF Live(j) THEN [arrivals[j] EXCEPT !.st = "cancelled"]
                   ELSE arrivals[j]]
            /\ flight' = OnComplete(arrivals[k].id)
            /\ run' = "raised"
       ELSE /\ arrivals' = [arrivals EXCEPT ![k].st = "responding"]
            /\ UNCHANGED <<flight, run>>
    /\ UNCHANGED loop

\* The transport takes the response frame a task is sending.
TransportWrites(k) ==
    /\ arrivals[k].st = "responding"
    /\ arrivals' = [arrivals EXCEPT ![k].st = "written"]
    /\ UNCHANGED <<flight, loop, run>>

\* The task leaves `with responder`: the completed responder is taken out of
\* the table by its request id.
ResponderExits(k) ==
    /\ arrivals[k].st = "written"
    /\ arrivals' = [arrivals EXCEPT ![k].st = "done"]
    /\ flight' = OnComplete(arrivals[k].id)
    /\ UNCHANGED <<loop, run>>

\* The read stream reaches end of input: the read loop leaves its async for,
\* runs its finally block and closes the read stream, the write stream and
\* the incoming stream of run.
ReadStreamEnds ==
    /\ loop = "reading"
    /\ loop' = "ended"
    /\ UNCHANGED <<arrivals, flight, run>>

\* run leaves `async for message in session.incoming_messages` and waits at
\* the end of its task group.
RunLoopEnds ==
    /\ run = "receiving"
    /\ loop = "ended"
    /\ run' = "draining"
    /\ UNCHANGED <<arrivals, flight, loop>>

\* Every task of the group has ended: run returns.
RunReturns ==
    /\ run = "draining"
    /\ \A k \in DOMAIN arrivals : ~Live(k)
    /\ run' = "returned"
    /\ UNCHANGED <<arrivals, flight, loop>>

\* ------------------------------------ the rebuilt table of request handlers

VARIABLES
    request_handlers,    \* Server.request_handlers: what a request type runs
    original_handlers,   \* _original_handlers: the copy setup took
    registrations        \* per request type, the handler registered last

rebuildVars == <<request_handlers, original_handlers, registrations>>

\* Request types: the low-level server registers the ping handler when it is
\* constructed, _setup_handlers registers the server's own tool handlers, a
\* user registers handlers through the decorators of the low-level server.
RequestTypes == {"Ping", "ListTools", "CallTool", "SetLevel"}
SetupTypes == {"ListTools", "CallTool"}
UserTypes == {"CallTool", "SetLevel"}
UserHandlers == {"user1", "user2"}

\* A handler: the registered function under the layers put around it,
\* outermost first.
Layered(fn, layers) == [fn |-> fn, layers |-> layers]
Unwrapped(fn) == Layered(fn, <<>>)
NoHandler == Unwrapped("none")

\* The list a server of this class starts with.
StartMiddlewares == <<"Logging">>

RebuildIdle ==
    /\ request_handlers =
           [t \in RequestTypes |->
               IF t = "Ping" THEN Unwrapped("server") ELSE NoHandler]
    /\ original_handlers = [t \in RequestTypes |-> NoHandler]
    /\ registrations =
           [t \in RequestTypes |-> IF t = "Ping" THEN "server" ELSE "none"]

\* not self._original_handlers
NotBackedUp(original) == \A t \in RequestTypes : original[t] = NoHandler

\* _apply_middlewares: nothing without the copy; else the table is replaced
\* by the copy and every handler of it is put under make_wrapper and then
\* under the middlewares, the last of the list first.
ApplyMiddlewares(original, table, mws) ==
    IF NotBackedUp(original) THEN table
    ELSE [t \in RequestTypes |->
             IF original[t] = NoHandler THEN NoHandler
             ELSE Layered(original[t].fn,
                          mws \o <<"wrapper">> \o original[t].layers)]

\* setup, at the start of the lifespan: the server's handlers are registered,
\* the table is copied, the middlewares are applied.
Setup ==
    LET table == [t \in RequestTypes |->
                     IF t \in SetupTypes THEN Unwrapped("server")
                     ELSE request_handlers[t]]
    IN /\ NotBackedUp(original_handlers)
       /\ original_handlers' = table
       /\ request_handlers' = ApplyMiddlewares(table, table, middlewares)
       /\ registrations' =
              [t \in RequestTypes |->
                  IF t \in SetupTypes THEN "server" ELSE registrations[t]]
       /\ UNCHANGED middlewares

\* A decorator of the low-level server registers fn for the request type.
RegisterHandler(t, fn) ==
    /\ registrations[t] # fn
    /\ request_handlers' = [request_handlers EXCEPT ![t] = Unwrapped(fn)]
    /\ registrations' = [registrations EXCEPT ![t] = fn]
    /\ UNCHANGED <<original_handlers, middlewares>>

\* add_middleware of the server that rebuilds its table.
AddAndApply(mw) ==
    /\ \A k \in DOMAIN middlewares : middlewares[k] # mw
    /\ middlewares' = Append(middlewares, mw)
    /\ request_handlers' =
           ApplyMiddlewares(original_handlers, request_handlers, middlewares')
    /\ UNCHANGED <<original_handlers, registrations>>

\* remove_middleware(cls) of the server that rebuilds its table.
RemoveAndApply(cls) ==
    /\ \E k \in DOMAIN middlewares : MiddlewareType(middlewares[k]) = cls
    /\ middlewares' = SelectSeq(middlewares, LAMBDA m : MiddlewareType(m) # cls)
    /\ request_handlers' =
           ApplyMiddlewares(original_handlers, request_handlers, middlewares')
    /\ UNCHANGED <<original_handlers, registrations>>

\* ------------------------------------- the cooldown manager and its buckets

\* Calls of one CooldownManager in one run.
MaxCalls == 3

VARIABLES
    last_used,   \* per key: when its bucket last consumed, 0 when it has not
    unpruned,    \* the cache of the same manager had it never pruned
    access       \* the latest get_bucket or update_bucket and what it gave

managerVars == <<last_used, unpruned, access>>

\* The request a context carries: none on stdio; over HTTP one with or
\* without the mcp-session-id header.
NoHeader == "absent"
NoRequest == [request |-> FALSE, header |-> NoHeader]
HttpRequest(h) == [request |-> TRUE, header |-> h]
Requests == {NoRequest} \cup {HttpRequest(h) : h \in BucketKeys \cup {NoHeader}}

\* get_bucket_key
MutGetBucketKey(r) == "global"

GetBucketKey(r) ==
    IF ~r.request THEN "global"
    ELSE IF r.header = NoHeader THEN "global" ELSE r.header

\* get_bucket and update_bucket without the call of _prune_cache.
KeepBucket(c, ch, k, t) ==
    [ch EXCEPT ![k] = IF ch[k].live THEN ch[k] ELSE NewLimiter(c, t)]

KeepUpdate(c, ch, k, t, amount) ==
    LET got == KeepBucket(c, ch, k, t)
        r == Consume(c, got[k], t, amount)
    IN [ok |-> r.ok, cache |-> [got EXCEPT ![k] = r.limiter]]

\* The consume times of the buckets the pruning at time t leaves.
StillUsed(c, ch, used, t) ==
    [j \in BucketKeys |-> IF PruneCache(c, ch, t)[j].live THEN used[j] ELSE 0]

NoAccess ==
    [live |-> FALSE, key |-> "global", update |-> FALSE, fresh |-> FALSE,
     kept_fresh |-> FALSE, ok |-> FALSE, kept_ok |-> FALSE, calls |-> 0]

ManagerIdle ==
    /\ last_used = [k \in BucketKeys |-> 0]
    /\ unpruned = [k \in BucketKeys |-> NoBucket]
    /\ access = NoAccess

\* CooldownManager.get_bucket for the context of request r.
BucketGet(r) ==
    LET k == GetBucketKey(r) IN
    /\ access.calls < MaxCalls
    /\ cache' = GetBucket(cfg, cache, k, now)
    /\ unpruned' = KeepBucket(cfg, unpruned, k, now)
    /\ access' = [NoAccess EXCEPT !.live = TRUE, !.key = k,
                                  !.fresh = ~PruneCache(cfg, cache, now)[k].live,
                                  !.kept_fresh = ~unpruned[k].live,
                                  !.calls = access.calls + 1]
    /\ last_used' = StillUsed(cfg, cache, last_used, now)
    /\ UNCHANGED <<cfg, now, call, registry, grants, last_consume>>

\* CooldownManager.update_bucket(context) for the context of request r, as
\* the rate-limit middleware calls it.
BucketUpdate(r) ==
    LET k == GetBucketKey(r)
        u == UpdateBucket(cfg, cache, k, now, 1)
        v == KeepUpdate(cfg, unpruned, k, now, 1)
    IN
    /\ access.calls < MaxCalls
    /\ cache' = u.cache
    /\ unpruned' = v.cache
    /\ last_used' = [StillUsed(cfg, cache, last_used, now) EXCEPT ![k] = now]
    /\ grants' = IF u.ok THEN [grants EXCEPT ![k] = Append(@, now)]
                 ELSE grants
    /\ access' = [NoAccess EXCEPT !.live = TRUE, !.key = k, !.update = TRUE,
                                  !.fresh = ~PruneCache(cfg, cache, now)[k].live,
                                  !.kept_fresh = ~unpruned[k].live,
                                  !.ok = u.ok, !.kept_ok = v.ok,
                                  !.calls = access.calls + 1]
    /\ UNCHANGED <<cfg, now, call, registry, last_consume>>

\* The clock advances between two calls.
ManagerTick ==
    /\ now < ClockEnd(cfg)
    /\ now' = now + 1
    /\ grants' = [k \in BucketKeys |-> Recent(grants[k], now + 1, cfg.per)]
    /\ access' = [NoAccess EXCEPT !.calls = access.calls]
    /\ UNCHANGED <<cfg, cache, call, registry, last_consume, last_used,
                   unpruned>>

\* ------------------------------------------------------ specifications

\* The parts added after the event store, and those added after the chain.
earlierVars == <<connVars, loadVars, chainVars>>

laterVars == <<lifeVars, downVars, runVars>>

\* The parts added last.
lastVars == <<rebuildVars, managerVars>>

moreVars == <<earlierVars, laterVars, lastVars>>

vars == <<sessionVars, rateVars, storeVars, moreVars>>

\* A direct consume on the limiter of the documented example, followed by a
\* read of its stats.
LimiterConsume ==
    /\ LET r == Consume(cfg, cache["global"], now, 1) IN
       /\ cache' = [cache EXCEPT !["global"] = r.limiter]
       /\ last_consume' = [live |-> TRUE, ok |-> r.ok, at |-> now,
                           before |-> cache["global"],
                           stats |-> Stats(cfg, r.limiter, now)]
       /\ grants' = IF r.ok THEN [grants EXCEPT !["global"] = Append(@, now)]
                    ELSE grants
    /\ UNCHANGED <<cfg, now, call, registry>>

RateIdle ==
    /\ cfg = FixedWindowCase
    /\ registry = RegistryWith("tool")
    /\ now = ClockStart(cfg)
    /\ cache = [k \in BucketKeys |-> NoBucket]
    /\ call = IdleCall
    /\ grants = [k \in BucketKeys |-> <<>>]
    /\ last_consume = NoConsume

FixedWindowInit ==
    /\ cfg = FixedWindowCase
    /\ registry = RegistryWith("tool")
    /\ now = ClockStart(cfg)
    /\ cache = [k \in BucketKeys |->
                   IF k = "global" THEN NewLimiter(cfg, now) ELSE NoBucket]
    /\ call = IdleCall
    /\ grants = [k \in BucketKeys |-> <<>>]
    /\ last_consume = NoConsume

StoreIdle ==
    /\ adapter = "memory"
    /\ clock = 1
    /\ created = 0
    /\ pending = {}
    /\ stored = <<>>
    /\ replay = NoReplay

SessionNext ==
    \/ \E i \in RequestIds :
           ReceiveInvalidRequest(i) /\ UNCHANGED <<rateVars, storeVars, moreVars>>
    \/ \E i \in RequestIds, m \in Methods :
           ClientSends(i, m) /\ ReceiveRequest(i, m)
               /\ UNCHANGED <<rateVars, storeVars, moreVars>>
    \/ \E i \in RequestIds : EnterTask(i) /\ UNCHANGED <<rateVars, storeVars, moreVars>>
    \/ \E i \in RequestIds, o \in Outcomes :
           HandlerReturns(i, o) /\ UNCHANGED <<rateVars, storeVars, moreVars>>
    \/ \E i \in RequestIds :
           HandlerCancelled(i) /\ UNCHANGED <<rateVars, storeVars, moreVars>>
    \/ \E i \in RequestIds : SendCancelled(i) /\ UNCHANGED <<rateVars, storeVars, moreVars>>
    \/ TransportTakes /\ UNCHANGED <<rateVars, storeVars, moreVars>>
    \/ \E i \in RequestIds : TaskExits(i) /\ UNCHANGED <<rateVars, storeVars, moreVars>>
    \/ \E i \in RequestIds :
           ReceiveCancelled(i) /\ UNCHANGED <<rateVars, storeVars, moreVars>>

RateNext ==
    \/ \E tg \in Targets :
           ProcessRateLimit(tg[1], tg[2], SessionKey)
               /\ UNCHANGED <<sessionVars, storeVars, moreVars>>
    \/ RaiseRateLimitExceeded /\ UNCHANGED <<sessionVars, storeVars, moreVars>>
    \/ \E o \in {"result", "exception"} :
           HandlerEnds(o) /\ UNCHANGED <<sessionVars, storeVars, moreVars>>
    \/ Tick /\ UNCHANGED <<sessionVars, storeVars, moreVars>>

LimiterNext ==
    \/ \E k \in BucketKeys : LimitedCall(k) /\ UNCHANGED <<sessionVars, storeVars, moreVars>>
    \/ Tick /\ UNCHANGED <<sessionVars, storeVars, moreVars>>

FixedWindowNext ==
    \/ LimiterConsume /\ UNCHANGED <<sessionVars, storeVars, moreVars>>
    \/ Tick /\ UNCHANGED <<sessionVars, storeVars, moreVars>>

StoreNext ==
    \/ \E sid \in StreamIds : StoreEvent(sid) /\ UNCHANGED <<sessionVars, rateVars, moreVars>>
    \/ \E sid \in StreamIds : CreateRecord(sid) /\ UNCHANGED <<sessionVars, rateVars, moreVars>>
    \/ \E e \in pending : InsertEvent(e) /\ UNCHANGED <<sessionVars, rateVars, moreVars>>
    \/ ClockAdvances /\ UNCHANGED <<sessionVars, rateVars, moreVars>>
    \/ \E a \in EventIds : ReplayEventsAfter(a) /\ UNCHANGED <<sessionVars, rateVars, moreVars>>

LastIdle == RebuildIdle /\ ManagerIdle

LaterIdle == LifeIdle /\ DownIdle /\ RunIdle /\ LastIdle

MoreIdle == ConnIdle /\ LoadIdle /\ ChainIdle /\ LaterIdle

SqliteIdle ==
    /\ adapter = "sqlite"
    /\ clock = 1
    /\ created = 0
    /\ pending = {}
    /\ stored = <<>>
    /\ replay = NoReplay

ConnNext ==
    \/ \E i \in TaskIds, op \in Operations :
           AEnter(i, op) /\ UNCHANGED <<adapter, clock, pending, replay>>
               /\ UNCHANGED <<laterVars, lastVars, sessionVars, rateVars, loadVars, chainVars>>
    \/ \E i \in TaskIds :
           InitSchema(i) /\ UNCHANGED <<adapter, clock, pending, replay>>
               /\ UNCHANGED <<laterVars, lastVars, sessionVars, rateVars, loadVars, chainVars>>
    \/ \E i \in TaskIds, sid \in StreamIds :
           ExecuteInsert(i, sid) /\ UNCHANGED <<adapter, clock, pending, replay>>
               /\ UNCHANGED <<laterVars, lastVars, sessionVars, rateVars, loadVars, chainVars>>
    \/ \E i \in TaskIds :
           CommitInsert(i) /\ UNCHANGED <<adapter, clock, pending, replay>>
               /\ UNCHANGED <<laterVars, lastVars, sessionVars, rateVars, loadVars, chainVars>>
    \/ \E i \in TaskIds, a \in EventIds :
           ReplayQuery(i, a) /\ UNCHANGED <<adapter, clock, pending, replay>>
               /\ UNCHANGED <<laterVars, lastVars, sessionVars, rateVars, loadVars, chainVars>>
    \/ \E i \in TaskIds :
           AExit(i) /\ UNCHANGED <<adapter, clock, pending, replay>>
               /\ UNCHANGED <<laterVars, lastVars, sessionVars, rateVars, loadVars, chainVars>>

\* The rate-limit state of a server nothing was loaded into.
RateUnloaded ==
    /\ cfg = FixedWindowCase
    /\ registry = EmptyServer.registry
    /\ now = ClockStart(cfg)
    /\ cache = [k \in BucketKeys |-> NoBucket]
    /\ call = IdleCall
    /\ grants = [k \in BucketKeys |-> <<>>]
    /\ last_consume = NoConsume

LoadNext ==
    \E kind \in Kinds, key \in AllKeys, enabled \in BOOLEAN, autocomplete \in BOOLEAN :
        LoadManifest(kind, key, enabled, autocomplete)
            /\ UNCHANGED <<cfg, now, cache, call, grants, last_consume>>
            /\ UNCHANGED <<laterVars, lastVars, sessionVars, storeVars, connVars, chainVars>>

\* A server that has loaded its plugin, before the first message.
ChainInit ==
    /\ \E k \in Kinds : ServerIs(LoadAll(EmptyServer, ChainPlugin(k)))
    /\ loads = <<>>
    /\ cfg = FixedWindowCase
    /\ now = ClockStart(cfg)
    /\ cache = [k \in BucketKeys |-> NoBucket]
    /\ call = IdleCall
    /\ grants = [k \in BucketKeys |-> <<>>]
    /\ last_consume = NoConsume
    /\ middlewares = DefaultMiddlewares
    /\ dispatch = NoDispatch

ChainNext ==
    \/ \E msg \in Messages :
           \E o \in CallbackOutcomes(msg), verdicts \in Verdicts(msg) :
               HandleMessage(msg, o, verdicts)
                   /\ UNCHANGED <<middlewares, cfg, now, call, registry, grants,
                                  last_consume>>
                   /\ UNCHANGED <<laterVars, lastVars, sessionVars, storeVars, connVars, loadVars>>
    \/ \E mw \in Addable :
           AddMiddleware(mw)
               /\ UNCHANGED <<laterVars, lastVars, sessionVars, rateVars, storeVars, connVars, loadVars>>
    \/ \E cls \in MiddlewareTypes :
           RemoveMiddleware(cls)
               /\ UNCHANGED <<laterVars, lastVars, sessionVars, rateVars, storeVars, connVars, loadVars>>
    \/ MessageDone
           /\ UNCHANGED <<middlewares>>
           /\ UNCHANGED <<laterVars, lastVars, sessionVars, rateVars, storeVars, connVars, loadVars>>

LifeNext ==
    \/ ManagerRuns /\ UNCHANGED <<sessionVars, rateVars, storeVars, earlierVars, lastVars, downVars, runVars>>
    \/ \E ok \in BOOLEAN :
           Login(ok) /\ UNCHANGED <<sessionVars, rateVars, storeVars, earlierVars, lastVars, downVars, runVars>>
    \/ CreateConnectTask /\ UNCHANGED <<sessionVars, rateVars, storeVars, earlierVars, lastVars, downVars, runVars>>
    \/ GatewayReady /\ UNCHANGED <<sessionVars, rateVars, storeVars, earlierVars, lastVars, downVars, runVars>>
    \/ ConnectFails /\ UNCHANGED <<sessionVars, rateVars, storeVars, earlierVars, lastVars, downVars, runVars>>
    \/ WaitUntilReady /\ UNCHANGED <<sessionVars, rateVars, storeVars, earlierVars, lastVars, downVars, runVars>>
    \/ \E s \in SessionIds :
           OpenSession(s) /\ UNCHANGED <<sessionVars, rateVars, storeVars, earlierVars, lastVars, downVars, runVars>>
    \/ \E s \in SessionIds :
           Dispatch(s) /\ UNCHANGED <<sessionVars, rateVars, storeVars, earlierVars, lastVars, downVars, runVars>>
    \/ \E s \in SessionIds :
           HandlerDone(s) /\ UNCHANGED <<sessionVars, rateVars, storeVars, earlierVars, lastVars, downVars, runVars>>
    \/ \E s \in SessionIds :
           CloseSession(s) /\ UNCHANGED <<sessionVars, rateVars, storeVars, earlierVars, lastVars, downVars, runVars>>
    \/ LifespanExits /\ UNCHANGED <<sessionVars, rateVars, storeVars, earlierVars, lastVars, downVars, runVars>>
    \/ CancelConnectTask /\ UNCHANGED <<sessionVars, rateVars, storeVars, earlierVars, lastVars, downVars, runVars>>
    \/ CloseBot /\ UNCHANGED <<sessionVars, rateVars, storeVars, earlierVars, lastVars, downVars, runVars>>
    \/ ManagerStops /\ UNCHANGED <<sessionVars, rateVars, storeVars, earlierVars, lastVars, downVars, runVars>>

DownNext ==
    \/ \E r \in OutIds :
           SendRequest(r)
               /\ UNCHANGED <<sessionVars, rateVars, storeVars, earlierVars, lastVars, lifeVars, runVars>>
    \/ \E r \in OutIds :
           ReceiveResponse(r)
               /\ UNCHANGED <<sessionVars, rateVars, storeVars, earlierVars, lastVars, lifeVars, runVars>>
    \/ \E r \in OutIds, how \in {"answered", "gave_up"} :
           LeaveSendRequest(r, how)
               /\ UNCHANGED <<sessionVars, rateVars, storeVars, earlierVars, lastVars, lifeVars, runVars>>
    \/ ReadLoopEnds
           /\ UNCHANGED <<sessionVars, rateVars, storeVars, earlierVars, lastVars, lifeVars, runVars>>
    \/ NextStream
           /\ UNCHANGED <<sessionVars, rateVars, storeVars, earlierVars, lastVars, lifeVars, runVars>>
    \/ CloseStream
           /\ UNCHANGED <<sessionVars, rateVars, storeVars, earlierVars, lastVars, lifeVars, runVars>>

RunNext ==
    \/ \E id \in ClientIds :
           ReadRequest(id)
               /\ UNCHANGED <<sessionVars, rateVars, storeVars, earlierVars, lastVars, lifeVars, downVars>>
    \/ ReadNotification
           /\ UNCHANGED <<sessionVars, rateVars, storeVars, earlierVars, lastVars, lifeVars, downVars>>
    \/ StartSoon
           /\ UNCHANGED <<sessionVars, rateVars, storeVars, earlierVars, lastVars, lifeVars, downVars>>
    \/ \E k \in DOMAIN arrivals, suspends \in BOOLEAN :
           TaskEnters(k, suspends)
               /\ UNCHANGED <<sessionVars, rateVars, storeVars, earlierVars, lastVars, lifeVars, downVars>>
    \/ \E k \in DOMAIN arrivals :
           NotificationHandled(k)
               /\ UNCHANGED <<sessionVars, rateVars, storeVars, earlierVars, lastVars, lifeVars, downVars>>
    \/ \E k \in DOMAIN arrivals :
           RequestHandled(k)
               /\ UNCHANGED <<sessionVars, rateVars, storeVars, earlierVars, lastVars, lifeVars, downVars>>
    \/ \E k \in DOMAIN arrivals :
           TransportWrites(k)
               /\ UNCHANGED <<sessionVars, rateVars, storeVars, earlierVars, lastVars, lifeVars, downVars>>
    \/ \E k \in DOMAIN arrivals :
           ResponderExits(k)
               /\ UNCHANGED <<sessionVars, rateVars, storeVars, earlierVars, lastVars, lifeVars, downVars>>
    \/ ReadStreamEnds
           /\ UNCHANGED <<sessionVars, rateVars, storeVars, earlierVars, lastVars, lifeVars, downVars>>
    \/ RunLoopEnds
           /\ UNCHANGED <<sessionVars, rateVars, storeVars, earlierVars, lastVars, lifeVars, downVars>>
    \/ RunReturns
           /\ UNCHANGED <<sessionVars, rateVars, storeVars, earlierVars, lastVars, lifeVars, downVars>>

RebuildNext ==
    \/ Setup
           /\ UNCHANGED <<dispatch>>
           /\ UNCHANGED <<sessionVars, rateVars, storeVars, connVars, loadVars, laterVars, managerVars>>
    \/ \E t \in UserTypes, fn \in UserHandlers :
           RegisterHandler(t, fn)
               /\ UNCHANGED <<dispatch>>
               /\ UNCHANGED <<sessionVars, rateVars, storeVars, connVars, loadVars, laterVars, managerVars>>
    \/ \E mw \in Addable :
           AddAndApply(mw)
               /\ UNCHANGED <<dispatch>>
               /\ UNCHANGED <<sessionVars, rateVars, storeVars, connVars, loadVars, laterVars, managerVars>>
    \/ \E cls \in MiddlewareTypes :
           RemoveAndApply(cls)
               /\ UNCHANGED <<dispatch>>
               /\ UNCHANGED <<sessionVars, rateVars, storeVars, connVars, loadVars, laterVars, managerVars>>

\* One manager of any of the configurations, before its first call.
ManagerInit ==
    /\ cfg \in Configs
    /\ registry = RegistryWith("tool")
    /\ now = ClockStart(cfg)
    /\ cache = [k \in BucketKeys |-> NoBucket]
    /\ call = IdleCall
    /\ grants = [k \in BucketKeys |-> <<>>]
    /\ last_consume = NoConsume

ManagerNext ==
    \/ \E r \in Requests :
           BucketGet(r)
               /\ UNCHANGED <<sessionVars, storeVars, earlierVars, laterVars, rebuildVars>>
    \/ \E r \in Requests :
           BucketUpdate(r)
               /\ UNCHANGED <<sessionVars, storeVars, earlierVars, laterVars, rebuildVars>>
    \/ ManagerTick
           /\ UNCHANGED <<sessionVars, storeVars, earlierVars, laterVars, rebuildVars>>

Init == SessionInit /\ RateIdle /\ StoreIdle /\ MoreIdle
InitRate == SessionInit /\ RateInit /\ StoreIdle /\ MoreIdle
InitFixedWindow == SessionInit /\ FixedWindowInit /\ StoreIdle /\ MoreIdle
InitStore == SessionInit /\ RateIdle /\ StoreInit /\ MoreIdle
InitConn == SessionInit /\ RateIdle /\ SqliteIdle /\ ConnIdle /\ LoadIdle /\ ChainIdle /\ LaterIdle
InitLoad == SessionInit /\ RateUnloaded /\ StoreIdle /\ ConnIdle /\ LoadIdle /\ ChainIdle /\ LaterIdle
InitChain == SessionInit /\ StoreIdle /\ ConnIdle /\ ChainInit /\ LaterIdle
InitLife ==
    SessionInit /\ RateIdle /\ StoreIdle /\ ConnIdle /\ LoadIdle /\ ChainIdle /\ LifeInit
        /\ DownIdle /\ RunIdle /\ LastIdle
InitDown ==
    SessionInit /\ RateIdle /\ StoreIdle /\ ConnIdle /\ LoadIdle /\ ChainIdle /\ LifeIdle
        /\ DownIdle /\ RunIdle /\ LastIdle
InitRun == MoreIdle /\ SessionInit /\ RateIdle /\ StoreIdle
InitManager == SessionInit /\ ManagerInit /\ StoreIdle /\ MoreIdle
InitRebuild ==
    /\ SessionInit /\ RateIdle /\ StoreIdle /\ ConnIdle /\ LoadIdle
    /\ LifeIdle /\ DownIdle /\ RunIdle /\ RebuildIdle /\ ManagerIdle
    /\ middlewares = StartMiddlewares
    /\ dispatch = NoDispatch

\* One session: the read loop, the request tasks and the transport.
Spec == Init /\ [][SessionNext]_vars

\* The rate-limit middleware over one limited manifest.
SpecRate == InitRate /\ [][RateNext]_vars

\* One CooldownManager, called for several bucket keys.
SpecLimiter == InitRate /\ [][LimiterNext]_vars

\* The fixed-window limiter with rate 1 and period 60, used directly.
SpecFixedWindow == InitFixedWindow /\ [][FixedWindowNext]_vars

\* The event store over either adapter.
SpecStore == InitStore /\ [][StoreNext]_vars

\* Concurrent calls on the event store over the sqlite adapter.
SpecConn == InitConn /\ [][ConnNext]_vars

\* Manifests loaded into a server one after the other.
SpecLoad == InitLoad /\ [][LoadNext]_vars

\* One server with its plugin loaded: messages handled one after the other,
\* middlewares added and removed in between.
SpecChain == InitChain /\ [][ChainNext]_vars

\* One server process from startup to shutdown, on either transport.
SpecLife == InitLife /\ [][LifeNext]_vars

\* The same with every step that can be taken eventually taken.
SpecLifeFair == InitLife /\ [][LifeNext]_vars /\ WF_vars(LifeNext)

\* The outgoing requests of one session and the end of its read loop.
SpecDown == InitDown /\ [][DownNext]_vars

\* One session under run: the read loop, the dispatch loop and the tasks.
SpecRun == InitRun /\ [][RunNext]_vars

\* The same with every step that can be taken eventually taken.
SpecRunFair == InitRun /\ [][RunNext]_vars /\ WF_vars(RunNext)

\* One CooldownManager called with the contexts of several requests, next
\* to a manager that never prunes.
SpecManager == InitManager /\ [][ManagerNext]_vars

\* One server that rebuilds its handler table: setup, registrations, and
\* middlewares added and removed.
SpecRebuild == InitRebuild /\ [][RebuildNext]_vars

\* ---------------------------------------------- claims on rate limiting

\* The request the middleware follows names a manifest that is enabled and
\* has a cooldown.
CallIsLimited ==
    LET m == GetManifest(call.kind, call.key) IN
    call.pc # "idle" /\ m.present /\ m.enabled /\ m.cooldown

\* The counts of a limited request: one update; the handler invoked once
\* when allowed and never when denied.
C4_Counts ==
    CallIsLimited =>
        /\ call.updates = 1
        /\ call.pc = "denied" => call.invoked = 0
        /\ call.pc = "handler" => call.invoked = 1
        /\ call.pc = "answered" =>
               IF call.code = RATE_LIMIT_EXCEEDED
               THEN call.invoked = 0
               ELSE call.invoked = 1

\* The answer to a denied request: error -32006 carrying the stats of the
\* request's bucket as read at that moment.
C4_Denial ==
    (CallIsLimited /\ call.pc = "denied" /\ call'.pc = "answered") =>
        /\ call'.code = RATE_LIMIT_EXCEEDED
        /\ call'.data = Stats(cfg, cache'[call.bucket], now)
        /\ call'.invoked = 0
        /\ call'.updates = 1

\* C4: for a CallTool, GetPrompt or ReadResource request whose manifest is
\* enabled and has a cooldown, the cooldown is updated exactly once before the
\* handler; a denied request never reaches the handler and is answered with
\* error -32006 whose data are the stats of its bucket; an allowed request
\* reaches the handler exactly once.
C4_UpdateOnceThenHandlerOrDenial == [] C4_Counts /\ [][C4_Denial]_vars

\* C4 witness: a limited resource read was denied and answered with the
\* rate-limit error, its handler never invoked.
C4_Witness ==
    /\ CallIsLimited
    /\ call.kind = "resource"
    /\ call.pc = "answered"
    /\ call.code = RATE_LIMIT_EXCEEDED
    /\ call.invoked = 0
    /\ call.updates = 1

\* C5: the stats carried by every rate-limit denial have remaining = 0 and
\* retry_after > 0.
C5_DenialStatsExhausted ==
    (call.pc = "answered" /\ call.code = RATE_LIMIT_EXCEEDED) =>
        /\ call.data.remaining = 0
        /\ RatPositive(call.data.retry_after)

\* Calls granted to bucket k in the window (now - per, now].
GrantedWithin(k) ==
    Len(SelectSeq(grants[k], LAMBDA g : g > now - cfg.per))

C7_FixedWindowExample ==
    last_consume.live =>
        LET b == last_consume.before IN
        /\ (b.tokens = 0 /\ last_consume.at < b.window_start + cfg.per) =>
               /\ ~last_consume.ok
               /\ last_consume.stats.retry_after.num >= 0
               /\ RatAtMost(last_consume.stats.retry_after, cfg.per)
        /\ last_consume.at >= b.window_start + cfg.per => last_consume.ok

\* C7 witness: the token was spent, the period went by, and the next consume
\* succeeded.
C7_Witness ==
    /\ last_consume.live
    /\ last_consume.before.tokens = 0
    /\ last_consume.at >= last_consume.before.window_start + cfg.per
    /\ last_consume.ok

\* --------------------------------------------- claims on the event store

\* The anchor of the latest replay is a stored event.
AnchorKnown == HasEvent(stored, replay.anchor)

\* The position of event eid in insertion order.
PositionOf(eid) == CHOOSE k \in DOMAIN stored : stored[k].event_id = eid

\* The ids of the events stored in the anchor's stream after the anchor was
\* stored, in the order they were stored.
StoredAfter(eid) ==
    LET later == SubSeq(stored, PositionOf(eid) + 1, Len(stored))
        mine == SelectSeq(later,
                    LAMBDA e : e.stream_id = GetEvent(stored, eid).stream_id)
    IN [k \in DOMAIN mine |-> mine[k].event_id]

\* C8: a replay after a known anchor sends exactly the events stored in the
\* anchor's stream after the anchor, once each and in the order stored.
C8_ReplaySendsEveryLaterEvent ==
    (replay.live /\ AnchorKnown) => replay.sent = StoredAfter(replay.anchor)

\* C9: every event a replay sends belongs to the anchor's stream and has a
\* created_at strictly greater than the anchor's, and the events are sent in
\* ascending created_at order, with either adapter.
C9_ReplayFiltersAndOrders ==
    replay.live =>
        /\ \A k \in DOMAIN replay.sent :
               /\ AnchorKnown
               /\ HasEvent(stored, replay.sent[k])
               /\ GetEvent(stored, replay.sent[k]).stream_id
                      = GetEvent(stored, replay.anchor).stream_id
               /\ GetEvent(stored, replay.sent[k]).created_at
                      > GetEvent(stored, replay.anchor).created_at
        /\ \A j, k \in DOMAIN replay.sent :
               j < k => GetEvent(stored, replay.sent[j]).created_at
                            <= GetEvent(stored, replay.sent[k]).created_at

\* C9 witness: the sqlite adapter replayed two events in created_at order
\* although the later one was inserted first.
C9_Witness ==
    /\ replay.live
    /\ adapter = "sqlite"
    /\ Len(replay.sent) = 2
    /\ PositionOf(replay.sent[1]) > PositionOf(replay.sent[2])
    /\ GetEvent(stored, replay.sent[1]).created_at
           < GetEvent(stored, replay.sent[2]).created_at

\* C10: a replay returns the id of the anchor's stream whenever the anchor is
\* known, and nothing only when it is unknown.
C10_ReturnsOwningStream ==
    replay.live =>
        replay.returned = IF AnchorKnown
                          THEN GetEvent(stored, replay.anchor).stream_id
                          ELSE None

\* ------------------------------- claims on concurrent event store calls

\* C11: with store_event and replay_events_after running as concurrent tasks
\* on one PersistentEventStore over the sqlite adapter, no call finds the
\* connection closed (every call runs to completion), and the event of every
\* store_event that returned is in the table.
C11_ConcurrentCallsComplete ==
    \A i \in TaskIds :
        /\ tasks[i].pc \notin {"raised", "failed"}
        /\ (tasks[i].op = "store" /\ tasks[i].pc \in {"returning", "done"})
               => HasEvent(stored, tasks[i].event)

\* --------------------------------------------- claims on manifest loading

\* The callbacks of the manifests loaded with enabled = false.
DisabledLoaded == {loads[k].fn : k \in {j \in DOMAIN loads : ~loads[j].enabled}}

\* C19: after any sequence of manifest loads, a manifest loaded with
\* enabled = false is behind no entry of tools/list, resources/list,
\* resources/templates/list or prompts/list, is reached by no tools/call,
\* resources/read or prompts/get, and has no autocomplete handler registered.
C19_DisabledNeverServed ==
    DisabledLoaded \cap (Listed \cup Invocable \cup Autocompleting) = {}

\* A disabled manifest with an autocomplete handler was loaded after an
\* enabled one of the same kind and key, which is listed.
C19_Witness ==
    \E j, k \in DOMAIN loads :
        /\ j < k
        /\ loads[j].kind = loads[k].kind /\ loads[j].key = loads[k].key
        /\ loads[j].enabled /\ ~loads[k].enabled /\ loads[k].autocomplete
        /\ loads[j].fn \in Listed

\* The latest load before load k of the same kind and key, 0 when none.
LoadBefore(k) ==
    LET earlier == {j \in 1..(k - 1) : /\ loads[j].kind = loads[k].kind
                                       /\ loads[j].key = loads[k].key}
    IN IF earlier = {} THEN 0 ELSE CHOOSE j \in earlier : \A i \in earlier : i <= j

\* C20: adding a manifest whose (kind, key) is already in the registry with
\* an enabled entry leaves that entry in place (the add fails with Duplicate).
C20_DuplicateRefused ==
    \A k \in DOMAIN loads :
        (LoadBefore(k) # 0 /\ loads[LoadBefore(k)].enabled)
            => registry[<<loads[k].kind, loads[k].key>>].fn # loads[k].fn

\* ------------------------------------------- claims on the middleware chain

\* Where in the trace of the dispatch entries of one sort stand.
Positions(at) == {k \in DOMAIN dispatch.trace : dispatch.trace[k].at = at}

\* The manifest the hooks of the dispatched request look up.
Looked == registry[<<ManifestKind(dispatch.msg.method), dispatch.msg.key>>]

\* The dispatched request reached ChecksMiddleware and names an enabled
\* manifest that has checks.
ChecksApply ==
    /\ dispatch.live
    /\ dispatch.msg.method \in ManifestMethods
    /\ Positions("Checks") # {}
    /\ Looked.present /\ Looked.enabled /\ Looked.checks # <<>>

\* The predicates evaluated, in the order they were evaluated.
Evaluated ==
    LET evs == SelectSeq(dispatch.trace, LAMBDA e : e.at = "predicate")
    IN [k \in DOMAIN evs |-> evs[k].n]

\* C12: for a request whose manifest has checks, the predicates are evaluated
\* in their stored order; at the first falsy result no later predicate is
\* evaluated, the handler is not invoked and CheckFailure (-32008) naming
\* that predicate is the answer; the handler is invoked exactly once iff
\* every predicate returned truthy.
C12_ChecksShortCircuit ==
    ChecksApply =>
        LET m == Len(Evaluated)
            truthy(j) == dispatch.verdicts[Looked.checks[j]]
            allTruthy == \A j \in DOMAIN Looked.checks : truthy(j)
        IN /\ m >= 1 /\ m <= Len(Looked.checks)
           /\ \A j \in 1..m : Evaluated[j] = j
           /\ \A j \in 1..(m - 1) : truthy(j)
           /\ ~truthy(m) =>
                  /\ Positions("handler") = {}
                  /\ dispatch.answer = McpErr(CHECK_FAILURE, Looked.checks[m])
           /\ truthy(m) => m = Len(Looked.checks)
           /\ allTruthy <=> Cardinality(Positions("handler")) = 1
           /\ \A p \in Positions("predicate"), h \in Positions("handler") : p < h

\* A request whose manifest has two predicates, the first truthy and the
\* second falsy: both were evaluated and the answer names the second.
C12_Witness ==
    /\ ChecksApply
    /\ Len(Looked.checks) >= 2
    /\ dispatch.verdicts[Looked.checks[1]] /\ ~dispatch.verdicts[Looked.checks[2]]
    /\ Evaluated = <<1, 2>>
    /\ dispatch.answer.code = CHECK_FAILURE

\* The dispatched message is a CallTool, GetPrompt or ReadResource request on
\* a server that still has the middlewares it started with.
DefaultDispatch ==
    /\ dispatch.live
    /\ dispatch.chain = DefaultMiddlewares
    /\ dispatch.msg.method \in ManifestMethods

\* C13: on a server with the default middleware set every CallTool,
\* GetPrompt and ReadResource request passes through Logging, then
\* RateLimit, then Checks, then the method handler.
C13_DefaultChainOrder ==
    DefaultDispatch =>
        \E a \in Positions("Logging"), b \in Positions("RateLimit"),
           c \in Positions("Checks") :
            /\ a < b /\ b < c
            /\ \A h \in Positions("handler") : c < h

\* The templates that serve the URI of the dispatched resources/read and
\* whose manifest is enabled.
ServingTemplates ==
    {u \in Templates : /\ templates[u] # NoFn
                       /\ Matches(u, dispatch.msg.key)
                       /\ registry[<<"resource", u>>].enabled}

\* C14: when a resources/read of a concrete URI is served by a template
\* whose manifest carries a cooldown or checks, and the chain has the
\* rate-limit and the checks middleware, the bucket is updated and the
\* predicates are evaluated before the resource callback runs.
C14_TemplateManifestEnforced ==
    (/\ dispatch.live
     /\ dispatch.msg.method = "resources/read"
     /\ dispatch.msg.key \notin Templates
     /\ Positions("RateLimit") # {} /\ Positions("Checks") # {}
     /\ Positions("handler") # {})
        => \A u \in ServingTemplates :
               /\ registry[<<"resource", u>>].cooldown => Positions("update") # {}
               /\ registry[<<"resource", u>>].checks # <<>> =>
                      Positions("predicate") # {}

\* C15: every valid request and every initialized, roots/list_changed,
\* progress or cancelled notification runs through the middleware chain
\* exactly once, so that on the default server the logging middleware
\* records it.
C15_EveryMessageThroughChain ==
    (dispatch.live /\ dispatch.chain = DefaultMiddlewares)
        => /\ dispatch.chained = 1
           /\ Cardinality(Positions("Logging")) = 1

\* C16: a chain of pass-through middlewares only, of any length and empty
\* too, invokes the handler exactly once with the original message and
\* gives the handler's result unchanged.
C16_PassThroughChain ==
    (/\ dispatch.live
     /\ dispatch.chained = 1
     /\ \A k \in DOMAIN dispatch.chain : IsPassThrough(dispatch.chain[k]))
        => /\ Cardinality(Positions("handler")) = 1
           /\ dispatch.handled = dispatch.msg
           /\ dispatch.msg.event_type = "request" =>
                  dispatch.answer =
                      Response(Handler(Server, dispatch.msg, dispatch.o))

\* The error code the table gives an exception class.
TableCode(e) ==
    CASE e \in {"TypeError", "ValueError"} -> INVALID_PARAMS
      [] e \in {"JSONDecodeError", "ValidationError", "UnicodeDecodeError"} ->
             PARSE_ERROR
      [] e \in {"KeyError", "FileNotFoundError"} -> RESOURCE_NOT_FOUND
      [] e \in {"OSError", "IsADirectoryError"} -> RESOURCE_READ_ERROR
      [] e = "PermissionError" -> PERMISSION_DENIED
      [] e = "AssertionError" -> CHECK_FAILURE
      [] OTHER -> INTERNAL_ERROR

\* C17: when a handler raises an exception that is not an MCP error, the
\* logging middleware re-raises it as the MCP error the table gives its
\* class.
C17_ExceptionTable ==
    (/\ dispatch.live
     /\ dispatch.msg.method = "tools/list"
     /\ dispatch.o # "result"
     /\ Positions("Logging") # {})
        => dispatch.answer = McpErr(TableCode(dispatch.o), 0)

\* C18: a resources/read for a URI that no concrete resource and no
\* template serves is answered with the error ResourceNotFound (-32001).
C18_UnknownResourceNotFound ==
    (/\ DefaultDispatch
     /\ dispatch.msg.method = "resources/read"
     /\ GetResource(resources, templates, dispatch.msg.key) = {})
        => /\ dispatch.answer.kind = "mcp_error"
           /\ dispatch.answer.code = RESOURCE_NOT_FOUND

\* ------------------------------------ claims on the platform-client lifecycle

\* C21: a session is opened and a request is dispatched to a handler only
\* when Login has completed, the connect task was started and the client has
\* reported ready.
C21_ReadyBeforeRequests ==
    [][(\E s \in SessionIds :
            \/ sessions[s] = "none" /\ sessions'[s] = "open"
            \/ handlers'[s] > handlers[s])
        => (bot.login = "ok" /\ bot.task # "none" /\ bot.ready)]_vars

\* Requests are in flight on the second session of the http transport.
C21_Witness ==
    /\ transport = "http"
    /\ sessions[2] = "open"
    /\ handlers[2] > 0
    /\ bot.ready

\* C22: the connect task is cancelled and the platform client is closed only
\* when no session exists and no request handler is in flight.
C22_ClosedAfterSessionsDrained ==
    [][(\/ lifespan = "exiting" /\ lifespan' = "task_ended"
        \/ ~bot.closed /\ bot'.closed)
        => \A s \in SessionIds : sessions[s] # "open" /\ handlers[s] = 0]_vars

\* C23: when Login fails, or the connect task fails before the client is
\* ready, lifespan entry ends with an error: nothing is yielded, no session
\* is taken, and startup does not wait for readiness forever.
C23_FailedStartupEnds ==
    ((bot.login = "failed" \/ (bot.task = "failed" /\ ~bot.ready))
        ~> (lifespan = "error"))

\* ------------------------------------ claims on the teardown of the read loop

\* C24: once the finally block of the read loop is over, every response
\* stream that was pending when the loop ended, and whose task did not stop
\* waiting by itself, has received exactly one ConnectionClosed error and is
\* closed, and the registry is empty.
C24_TeardownReachesEveryStream ==
    teardown.pc \in {"raised", "cleared"} =>
        /\ \A r \in teardown.pending :
               waiters[r] # "gave_up" =>
                   /\ out_streams[r].errors = 1
                   /\ out_streams[r].closed
        /\ Used(response_streams) = 0

\* ------------------------------------------ claims on the dispatch loop

IsNotification(k) == arrivals[k].type = "notification"
IsRequest(k) == arrivals[k].type = "request"

\* C25: of two notifications of one session the later one's terminal handler
\* never runs before the earlier one's has run.
C25_NotificationsInArrivalOrder ==
    \A i, j \in DOMAIN arrivals :
        (i < j /\ IsNotification(i) /\ IsNotification(j)
            /\ arrivals[j].st = "done")
            => arrivals[i].st = "done"

\* C26: requests are handed to tasks in arrival order, and a request whose
\* handler is still running delays neither the start of a later request nor
\* the writing of the response of a later request whose handler has finished.
C26_CompletionOrderResponses ==
    /\ \A i, j \in DOMAIN arrivals :
           (i < j /\ arrivals[j].st # "handing") => arrivals[i].st # "handing"
    /\ \A i, j \in DOMAIN arrivals :
           (i < j /\ IsRequest(i) /\ IsRequest(j) /\ arrivals[i].st = "running")
               => /\ arrivals[j].st = "handing" => ENABLED StartSoon
                  /\ arrivals[j].st = "responding" => ENABLED TransportWrites(j)

\* The response of a later request was written while the handler of an
\* earlier request is still running.
C26_Witness ==
    \E i, j \in DOMAIN arrivals :
        /\ i < j /\ IsRequest(i) /\ IsRequest(j)
        /\ arrivals[i].st = "running"
        /\ arrivals[j].st \in {"written", "done"}

\* C27: once the read stream has reached end of input, the in-flight
\* handlers finish and the read loop, the dispatch loop and run all return.
C27_RunReturnsAfterInputCloses ==
    (loop = "ended") ~> (run = "returned")

\* C28: for every id in the in-flight table exactly one task that has not
\* ended has a responder carrying that id.
C28_OneTaskPerInFlightId ==
    \A id \in ClientIds :
        flight[id] # No =>
            Cardinality({k \in DOMAIN arrivals :
                            /\ IsRequest(k) /\ arrivals[k].id = id
                            /\ (Live(k) \/ arrivals[k].st = "handing")}) = 1

\* C30: after the read loop has ended the in-flight table is empty.
C30_TableEmptyAfterLoopEnds ==
    loop = "ended" => \A id \in ClientIds : flight[id] = No

\* ------------------------------------- claims on frames and the in-flight table

\* The processing of request i is over and a frame with its id went out.
Answered(i) ==
    responder[i].st \in {"done", "refused", "invalid"} /\ FramesFor(i) > 0

\* C29: whenever a response frame with request id i is handed to the write
\* stream, i is in the in-flight table (the initialize request is stored and
\* answered inside the session), and once the processing of i is over i is
\* no longer in the table.
C29_FramesOfInFlightIds ==
    [][/\ \A i \in RequestIds :
              FramesFor(i)' > FramesFor(i) =>
                  (i \in in_flight' \/ responder'[i].method = "initialize")
       /\ \A i \in RequestIds : Answered(i)' => i \notin in_flight']_vars

\* ----------------------------------------- claims on the order of the chain

\* What the dispatch ran, without the work inside the hooks.
Walked ==
    SelectSeq(dispatch.trace, LAMBDA e : e.at \notin {"update", "predicate"})

\* The entries of the first k middlewares of the chain, in declared order.
Entries(k) == [j \in 1..k |-> Ev(dispatch.chain[j], 0)]

\* The calls of the middlewares k, ..., 1 ending in that order, each as at.
Back(at, k) == [j \in 1..k |-> Ev(at, k + 1 - j)]

\* C31: with the middleware list m1, ..., mn, a request with a registered
\* handler enters m1, ..., mn in that order, the handler runs exactly once
\* and the calls end in the order mn, ..., m1; an exception raised by mk or
\* by the handler passes through m(k-1), ..., m1 only.
C31_OutermostFirst ==
    (/\ dispatch.live
     /\ dispatch.chained = 1
     /\ dispatch.msg.event_type = "request")
        => LET n == Len(dispatch.chain)
               handler == <<Ev("handler", 0)>>
           IN \/ /\ Walked = Entries(n) \o handler \o Back("post", n)
                 /\ dispatch.answer.kind = "result"
              \/ /\ Walked = Entries(n) \o handler \o Back("unwind", n)
                 /\ dispatch.answer.kind = "mcp_error"
              \/ \E k \in 1..n :
                     /\ Walked = Entries(k) \o <<Ev("raise", k)>>
                                     \o Back("unwind", k - 1)
                     /\ dispatch.answer.kind = "mcp_error"

\* ------------------------------------- claims on the rebuilt handler table

\* setup has run: the server serves requests.
SetUp == ~NotBackedUp(original_handlers)

\* C32: on a server that is set up, after any sequence of add_middleware,
\* remove_middleware and handler registrations, every request type a handler
\* was registered for has a handler, and it is the registered one under the
\* wrapper and the current middlewares in declared order, each once.
C32_RebuildKeepsRegistrations ==
    SetUp =>
        \A t \in RequestTypes :
            registrations[t] # "none" =>
                request_handlers[t] =
                    Layered(registrations[t], middlewares \o <<"wrapper">>)

\* ------------------------------------- claims on the cooldown manager

\* C33: after any get_bucket or update_bucket at time now, the cache holds no
\* bucket, other than the one just accessed, whose last consume happened
\* more than one period before now.
C33_BucketsLiveOneWindow ==
    access.live =>
        \A j \in BucketKeys \ {access.key} :
            (cache[j].live /\ last_used[j] # 0) =>
                now - last_used[j] <= cfg.per

\* The request carries the mcp-session-id header.
HasSessionId(r) == r.request /\ r.header # NoHeader

\* C34: an update for a key that is not in the cache is granted and leaves
\* the bucket at the full quota less the one consumed, whatever the other
\* buckets consumed; the prototype stays as it was; every other bucket that
\* granted a call within the last period is left as it was, and no other
\* bucket changes otherwise than by being pruned; requests with different
\* mcp-session-id headers use different buckets and requests without the
\* header use the bucket "global".
C34_FreshBucketPerKey ==
    [][\A r \in Requests :
          BucketUpdate(r) =>
              LET k == GetBucketKey(r) IN
              /\ ~cache[k].live =>
                     /\ access'.ok
                     /\ Stats(cfg, cache'[k], now).remaining = cfg.rate - 1
              /\ cfg' = cfg
              /\ \A j \in BucketKeys \ {k} :
                     /\ cache'[j] \in {cache[j], NoBucket}
                     /\ grants[j] # <<>> => cache'[j] = cache[j]
              /\ \A q \in Requests :
                     (HasSessionId(r) /\ HasSessionId(q) /\ r.header # q.header)
                         => GetBucketKey(q) # k
              /\ ~HasSessionId(r) => k = "global"]_vars

\* C34 witness: the bucket of "global" is spent, and the first update for
\* "session-1" was granted from a full bucket of its own.
C34_Witness ==
    /\ access.live /\ access.update /\ access.ok
    /\ access.key = "session-1" /\ access.calls = 2
    /\ last_used["global"] # 0 /\ last_used["session-1"] = now
    /\ Stats(cfg, cache["global"], now).remaining = 0
    /\ Stats(cfg, cache["session-1"], now).remaining = cfg.rate - 1

\* C38: every update_bucket of a manager that prunes gives the result the
\* same call gives on a manager that never pruned, for every limiter type
\* and every timed sequence of calls over the keys.
C38_PruningInvisible ==
    (access.live /\ access.update) => access.ok = access.kept_ok

\* C38 witness: an update for a key whose bucket had been pruned: the
\* pruning manager made a new bucket, the other consumed from the old one,
\* and the call was granted by both.
C38_Witness ==
    /\ access.live /\ access.update
    /\ access.fresh /\ ~access.kept_fresh
    /\ access.ok /\ access.kept_ok

\* ------------------------------------------- claims on unknown prompts

\* C36: a prompts/get request that reaches its handler and names a prompt
\* the prompt manager does not have is answered with the error
\* PromptNotFound (-32003).
C36_UnknownPromptNotFound ==
    (/\ dispatch.live
     /\ dispatch.msg.method = "prompts/get"
     /\ Positions("handler") # {}
     /\ prompts[dispatch.msg.key] = NoFn)
        => /\ dispatch.answer.kind = "mcp_error"
           /\ dispatch.answer.code = PROMPT_NOT_FOUND

\* ----------------------------- claims on the manifests behind the callbacks

\* C39: after any sequence of manifest loads, for every tool name, prompt
\* name and resource key the managers dispatch a callback for, the manifest
\* the rate-limit and checks middleware find under that key is enabled and
\* is the manifest of that callback.
C39_LookupMatchesDispatch ==
    LET Same(kind, key, fn) ==
            fn # NoFn => /\ registry[<<kind, key>>].fn = fn
                         /\ registry[<<kind, key>>].enabled
    IN /\ \A n \in Names : Same("tool", n, tools[n])
       /\ \A n \in Names : Same("prompt", n, prompts[n])
       /\ \A u \in Uris : Same("resource", u, resources[u])
       /\ \A u \in Uris : Same("resource", u, templates[u])

\* ------------------------------------------- direct consumes on a limiter

\* Largest amount one consume asks for.
MaxAmount == 2

Amounts == 1..MaxAmount

\* RateLimiter.consume(amount) on one limiter of the configured type, followed
\* by a read of its stats; `grants` gets one entry per granted unit.
ConsumeAmount(amount) ==
    /\ LET r == Consume(cfg, cache["global"], now, amount) IN
       /\ cache' = [cache EXCEPT !["global"] = r.limiter]
       /\ last_consume' = [live |-> TRUE, ok |-> r.ok, at |-> now,
                           before |-> cache["global"],
                           stats |-> Stats(cfg, r.limiter, now)]
       /\ grants' = IF r.ok
                    THEN [grants EXCEPT !["global"] = @ \o Repeat(now, amount)]
                    ELSE grants
    /\ UNCHANGED <<cfg, now, call, registry>>

\* One limiter of any type, built at the start of the clock.
ConsumeInit ==
    /\ cfg \in Configs
    /\ registry = RegistryWith("tool")
    /\ now = ClockStart(cfg)
    /\ cache = [k \in BucketKeys |->
                   IF k = "global" THEN NewLimiter(cfg, now) ELSE NoBucket]
    /\ call = IdleCall
    /\ grants = [k \in BucketKeys |-> <<>>]
    /\ last_consume = NoConsume

ConsumeNext ==
    \/ \E n \in Amounts :
           ConsumeAmount(n) /\ UNCHANGED <<sessionVars, storeVars, moreVars>>
    \/ Tick /\ UNCHANGED <<sessionVars, storeVars, moreVars>>

InitConsume == SessionInit /\ ConsumeInit /\ StoreIdle /\ MoreIdle

\* Direct consumes of one or more units on a limiter of any type.
SpecConsume == InitConsume /\ [][ConsumeNext]_vars

\* C35: a consume of n units on a moving-window limiter succeeds exactly when
\* the units granted within the last period plus n do not exceed the rate; a
\* successful consume records n timestamps equal to the current time; the
\* deque never holds more than rate timestamps and no more than rate units
\* are granted within one period.
C35_MovingWindowConsume ==
    [][\A n \in Amounts :
          (cfg.kind = "moving_window" /\ ConsumeAmount(n)) =>
              LET within == Recent(grants["global"], now, cfg.per)
                  stamps == cache'["global"].stamps
                  ok == last_consume'.ok
              IN /\ ok <=> (Len(within) + n <= cfg.rate)
                 /\ ok => stamps = within \o Repeat(now, n)
                 /\ ~ok => stamps = within
                 /\ Len(stamps) <= cfg.rate
                 /\ Len(Recent(grants'["global"], now, cfg.per)) <= cfg.rate]_vars

\* A consume of two units is granted after the timestamps of an earlier
\* period were dropped.
C35_Witness ==
    /\ cfg.kind = "moving_window"
    /\ last_consume.live /\ last_consume.ok
    /\ last_consume.before.stamps # <<>>
    /\ cache["global"].stamps = <<now, now>>


\* TokenBucketRateLimiter.consume(1) at time t + wait, where wait is a
\* fraction of a tick with denominator c.rate: whether _refill leaves a whole
\* token.
TokenGrantedAfter(c, l, t, wait) ==
    Min(c.rate * c.per, l.tokens + (t - l.last_check) * c.rate + wait.num)
        >= c.per

\* Whether consume(1) on the limiter l succeeds at time t + wait.
GrantedAfter(c, l, t, wait) ==
    IF c.kind = "token_bucket"
    THEN TokenGrantedAfter(c, l, t, wait)
    ELSE Consume(c, l, t + wait.num, 1).ok

\* C37: when a consume of one unit is denied at time t and the stats read at
\* t report retry_after = r, a consume of one unit at time t + r succeeds if
\* nothing else was consumed on the limiter in between.
C37_RetryAfterSuffices ==
    [][(ConsumeAmount(1) /\ ~last_consume'.ok) =>
          GrantedAfter(cfg, cache'["global"], now,
                       last_consume'.stats.retry_after)]_vars

====
